---- MODULE Spec2Model ----
(***************************************************************************)
(* The recording (DVR) core of EasyProxy: the SQLite job store             *)
(* (services/recording_db.py) and the FFmpeg process supervisor            *)
(* (services/recording_manager.py), run by several worker processes that   *)
(* share one store.  Every step of the model is one access to shared state *)
(* (the store, the OS process table, the file system) together with the    *)
(* worker-local statements around it.  Inside one worker the asyncio loop  *)
(* runs one task at a time: a task keeps the loop (busy[w]) from the await *)
(* that resumed it to the next await.                                      *)
(***************************************************************************)
EXTENDS Integers, FiniteSets, Sequences, TLC

\* ------------------------------------------------------------- bounds
NumWorkers == 2
NumUrls == 2
MaxJobs == 2
MaxPid == 2
MaxOps == 1
MaxCalls == 2
MaxTime == 2
MaxFileSize == 1
\* A run is explored up to MaxEffort: a new job costs JobCost, a call of
\* stop, delete, sweep or shutdown one unit, a clock tick one unit.
JobCost == 2
MaxEffort == 5

\* One clock unit is the retention period (retention_days days).
RetentionHorizon == 1

Workers == 1..NumWorkers
Urls == 1..NumUrls
JobIds == 1..MaxJobs
Pids == 1..MaxPid
Slots == 1..MaxOps

\* SQL NULL / Python None; a present value v is held as <<v>>.
NULL == <<>>

ActiveStatuses == {"starting", "recording"}
TerminalStatuses == {"completed", "failed", "stopped"}

\* ------------------------------------------------------------- JobStore (RecordingDB)

\* A mutant: the table without the index.
idx_recordings_active_url_dropped(db) == TRUE

\* A mutant: the index covers the rows of every status.
idx_recordings_active_url_allrows(db) ==
    \A a, b \in DOMAIN db : a # b => db[a].url # db[b].url

\* The partial unique index on url over the rows in starting or recording.
idx_recordings_active_url(db) ==
    \A a, b \in DOMAIN db :
        (a # b /\ db[a].status \in ActiveStatuses /\ db[b].status \in ActiveStatuses)
            => db[a].url # db[b].url

NewRow(url, t) ==
    [url |-> url, file_path |-> NULL, status |-> "starting", started_at |-> t,
     stopped_at |-> NULL, duration_seconds |-> NULL, file_size_bytes |-> NULL,
     error_message |-> NULL, pid |-> NULL]

\* A mutant: the insert without the unique index.
create_starting_entry_noindex(db, id, url, t) ==
    IF id \in DOMAIN db
    THEN [ok |-> FALSE, db |-> db]
    ELSE [ok |-> TRUE, db |-> db @@ (id :> NewRow(url, t))]

\* INSERT ... 'starting'; an IntegrityError (primary key, unique index) rolls
\* the insert back and is reported as False.
create_starting_entry(db, id, url, t) ==
    LET new == db @@ (id :> NewRow(url, t))
    IN IF id \notin DOMAIN db /\ idx_recordings_active_url(new)
       THEN [ok |-> TRUE, db |-> new]
       ELSE [ok |-> FALSE, db |-> db]

\* A mutant: the promote that writes nothing.
update_to_recording_skipped(db, id, file_path, pid) ==
    [rowcount |-> 0, db |-> db]

\* A mutant: the promote that does not write the pid.
update_to_recording_nopid(db, id, file_path, pid) ==
    IF id \in DOMAIN db /\ db[id].status = "starting"
    THEN [rowcount |-> 1,
          db |-> [db EXCEPT ![id].status = "recording", ![id].file_path = file_path]]
    ELSE [rowcount |-> 0, db |-> db]

\* A mutant: the promote without the status guard.
update_to_recording_unguarded(db, id, file_path, pid) ==
    IF id \in DOMAIN db
    THEN [rowcount |-> 1,
          db |-> [db EXCEPT ![id].status = "recording",
                            ![id].file_path = file_path, ![id].pid = pid]]
    ELSE [rowcount |-> 0, db |-> db]

\* UPDATE ... SET status='recording', file_path, pid WHERE id=? AND status='starting'
update_to_recording(db, id, file_path, pid) ==
    IF id \in DOMAIN db /\ db[id].status = "starting"
    THEN [rowcount |-> 1,
          db |-> [db EXCEPT ![id].status = "recording",
                            ![id].file_path = file_path, ![id].pid = pid]]
    ELSE [rowcount |-> 0, db |-> db]

get_recording(db, id) == IF id \in DOMAIN db THEN <<db[id]>> ELSE NULL

\* A mutant: the status update that never writes stopped_at.
update_recording_status_nostamp(db, id, status, error_message, t) ==
    IF id \in DOMAIN db
    THEN [db EXCEPT ![id].status = status, ![id].error_message = error_message]
    ELSE db

\* A mutant: the status update that is lost.
update_recording_status_lost(db, id, status, error_message, t) == db

\* UPDATE ... SET status, [stopped_at,] error_message WHERE id=?  (no guard on
\* the current status).
update_recording_status(db, id, status, error_message, t) ==
    IF id \notin DOMAIN db
    THEN db
    ELSE IF status \in TerminalStatuses
         THEN [db EXCEPT ![id].status = status, ![id].stopped_at = <<t>>,
                         ![id].error_message = error_message]
         ELSE [db EXCEPT ![id].status = status, ![id].error_message = error_message]

update_recording_file_info(db, id, duration_seconds, file_size_bytes) ==
    IF id \in DOMAIN db
    THEN [db EXCEPT ![id].duration_seconds = <<duration_seconds>>,
                    ![id].file_size_bytes = <<file_size_bytes>>]
    ELSE db

\* A mutant: the DELETE that removes nothing.
delete_recording_row_kept(db, id) == [deleted |-> id \in DOMAIN db, db |-> db]

\* A mutant: the query that finds no old row.
get_old_recordings_none(db, days, t) == {}

\* DELETE FROM recordings WHERE id=?; reports whether a row was deleted.
delete_recording_row(db, id) ==
    [deleted |-> id \in DOMAIN db,
     db |-> [k \in DOMAIN db \ {id} |-> db[k]]]

\* SELECT ... WHERE started_at < cutoff AND status != 'recording'
get_old_recordings(db, days, t) ==
    {id \in DOMAIN db : db[id].started_at < t - days /\ db[id].status # "recording"}

\* os.kill(pid, 0): a process with that pid exists.
is_pid_running(table, pid) ==
    /\ pid # NULL
    /\ \E j \in DOMAIN table : table[j].alive /\ <<table[j].pid>> = pid

\* The output path of a job: it begins with the job's id, so it is the job's own.
FilePath(id) == <<id>>

\* ------------------------------------------------------------- state

VARIABLES
    now,          \* the wall clock (datetime.utcnow, time.time)
    rows,         \* the recordings table: id -> row
    nextId,       \* the next id _generate_recording_id yields
    proc,         \* the capture processes ever spawned: job id -> process, with
                  \* the url its command was built for
    files,        \* the output files that exist: job id -> size in bytes
    processes,    \* per worker: RecordingManager.processes (ids with a handle)
    start_times,  \* per worker: RecordingManager.start_times
    busy,         \* per worker: the task that holds the event loop
    starts,       \* the start_recording calls past their claim: job id -> task
    monitors,     \* the _monitor_recording tasks: job id -> task
    ops,          \* the stop / delete / sweep / shutdown calls in flight; sent:
                  \* history, the signals the call's current stop_recording has
                  \* sent, each <<signal, job id of the process signalled>>
    calls,        \* how many stop / delete / sweep / shutdown calls were made
    returned,     \* what the call that returned in the last step handed to its
                  \* caller (NULL when the last step returned from no call)
    resolve,      \* one call of a function of the stream resolution: its name,
                  \* its argument and, once it has run, its result
    cleanup_loop  \* the cleanup_loop task of a worker: asleep, in an iteration
                  \* or ended, and how its last iteration went

\* The variables of the recording machine.
machine == <<now, rows, nextId, proc, files, processes, start_times, busy, starts,
             monitors, ops, calls, returned>>

machine_but_returned ==
    <<now, rows, nextId, proc, files, processes, start_times, busy, starts, monitors, ops,
      calls>>

vars == <<machine, resolve, cleanup_loop>>

\* The effort spent so far.
Spent == JobCost * (nextId - 1) + calls + now

NoTask == <<>>
MonitorTask(j) == <<"monitor", j>>
OpTask(s) == <<"op", s>>

NoSnapshot == [pid |-> NULL, file_path |-> NULL, started_at |-> NULL]

IdleOp ==
    [kind |-> "none", w |-> 1, pc |-> "idle", id |-> 1, todo |-> {},
     rec |-> NoSnapshot, already |-> FALSE, sent |-> <<>>, at |-> "none", held |-> {}]

\* What a call hands to its caller when it returns.
Return(call, id, outcome, value) ==
    <<[call |-> call, id |-> id, outcome |-> outcome, value |-> value]>>

\* What start_recording(url) hands to its caller when it returns.
StartReturn(url, id, outcome, value) ==
    <<[call |-> "start", url |-> url, id |-> id, outcome |-> outcome, value |-> value]>>

\* What the step that takes call op to next returns to the caller of op.
OpReturn(op, next, value) ==
    IF next.pc = "idle"
    THEN Return(op.kind, op.id, IF op.already THEN "was stopped" ELSE "none", value)
    ELSE NULL

\* No resolution call is looked at.
NoResolve == [fn |-> "none", arg |-> NULL, out |-> NULL]

MachineInit ==
    /\ now = 0
    /\ rows = <<>>
    /\ nextId = 1
    /\ proc = <<>>
    /\ files = <<>>
    /\ processes = [w \in Workers |-> {}]
    /\ start_times = [w \in Workers |-> <<>>]
    /\ busy = [w \in Workers |-> NoTask]
    /\ starts = <<>>
    /\ monitors = <<>>
    /\ ops = [s \in Slots |-> IdleOp]
    /\ calls = 0
    /\ returned = NULL

\* The cleanup_loop task of worker w, in its sleep.
Asleep(w, last) == [w |-> w, pc |-> "sleep", last |-> last]

Init ==
    /\ MachineInit
    /\ resolve = NoResolve
    /\ cleanup_loop = Asleep(1, "none")

Drop(f, k) == [x \in DOMAIN f \ {k} |-> f[x]]

\* The process spawned for job j is running.  A process that has exited stays
\* in the table until its monitor has collected it.
Alive(j) == j \in DOMAIN proc /\ proc[j].alive

AlivePids == {proc[j].pid : j \in {k \in DOMAIN proc : proc[k].alive}}

\* The pids the OS may give a new process.  Pids are interchangeable, so of the
\* pids that no row and no process mentions only the least is offered.
KnownPids ==
    {proc[j].pid : j \in DOMAIN proc} \cup
    {rows[j].pid[1] : j \in {k \in DOMAIN rows : rows[k].pid # NULL}}

FreePids ==
    {p \in Pids \ AlivePids :
        p \in KnownPids \/ \A q \in Pids \ KnownPids : p <= q}

\* Workers and urls are interchangeable too: the first job is claimed by
\* worker 1 for url 1.
FirstOnly(S) == IF nextId = 1 THEN {x \in S : \A y \in S : x <= y} ELSE S

\* The job whose live process has this pid (pids of live processes are distinct).
ProcessOfPid(pid) == CHOOSE j \in DOMAIN proc : proc[j].alive /\ <<proc[j].pid>> = pid

\* ------------------------------------------------------------- environment

\* Time passes.
Tick ==
    /\ now < MaxTime
    /\ Spent < MaxEffort
    /\ now' = now + 1
    /\ UNCHANGED <<calls, rows, nextId, proc, files, processes, start_times, busy, starts,
                   monitors, ops>>
    /\ returned' = NULL
    /\ UNCHANGED <<resolve, cleanup_loop>>

ExitCodes == {0, 1}
StderrBytes == {"", "text", "undecodable"}

\* The capture process ends on its own (end of stream, the duration cap, an
\* error, or its answer to 'q' or SIGTERM), with an exit code.
ProcExit(j) ==
    /\ j \in DOMAIN proc
    /\ proc[j].alive
    /\ \E rc \in ExitCodes :
          proc' = [proc EXCEPT ![j].alive = FALSE, ![j].returncode = <<rc>>]
    /\ UNCHANGED <<calls, now, rows, nextId, files, processes, start_times, busy, starts,
                   monitors, ops>>
    /\ returned' = NULL
    /\ UNCHANGED <<resolve, cleanup_loop>>

\* The capture process writes: it opens its output file once, creating it
\* with the first bytes, then appends to it.  A file removed under it is not
\* created again.
ProcWrite(j) ==
    /\ j \in DOMAIN proc
    /\ proc[j].alive
    /\ IF proc[j].opened
       THEN /\ j \in DOMAIN files
            /\ files[j] < MaxFileSize
            /\ files' = [files EXCEPT ![j] = @ + 1]
            /\ UNCHANGED proc
       ELSE /\ files' = (j :> 1) @@ files
            /\ proc' = [proc EXCEPT ![j].opened = TRUE]
    /\ UNCHANGED <<calls, now, rows, nextId, processes, start_times, busy, starts,
                   monitors, ops>>
    /\ returned' = NULL
    /\ UNCHANGED <<resolve, cleanup_loop>>

\* ------------------------------------------------------------- start_recording

\* How start_recording ends, and the value it hands to its caller.
StartReturnValue(outcome, recording) ==
    CASE outcome = "duplicate" -> "None"
      [] outcome = "spawn_failed" -> "None"
      [] OTHER -> IF recording = NULL THEN "None" ELSE "Row"

\* start_recording up to its first await: the id and the claim.
StartCall(w, url) ==
    /\ busy[w] = NoTask
    /\ LET claim == create_starting_entry(rows, nextId, url, now)
       IN IF claim.ok
          THEN /\ nextId <= MaxJobs
               /\ Spent + JobCost <= MaxEffort
               /\ rows' = claim.db
               /\ starts' = starts @@ (nextId :> [w |-> w, url |-> url])
               /\ nextId' = nextId + 1
               /\ returned' = NULL
          ELSE /\ returned' = StartReturn(url, nextId, "duplicate",
                                           StartReturnValue("duplicate", NULL))
               /\ UNCHANGED <<rows, starts, nextId>>
    /\ UNCHANGED <<calls, now, proc, files, processes, start_times, busy, monitors, ops>>
    /\ UNCHANGED <<resolve, cleanup_loop>>

\* create_subprocess_exec returns a process: it is registered with its start
\* time, the row promoted, the monitor task created and the row read back
\* for the caller.
StartSpawnOk(j) ==
    /\ j \in DOMAIN starts
    /\ busy[starts[j].w] = NoTask
    /\ \E p \in FreePids :
          /\ proc' = proc @@ (j :> [pid |-> p, alive |-> TRUE, returncode |-> NULL,
                                     opened |-> FALSE, url |-> starts[j].url])
          /\ rows' = update_to_recording(rows, j, FilePath(j), <<p>>).db
    /\ processes' = [processes EXCEPT ![starts[j].w] = @ \cup {j}]
    /\ start_times' = [start_times EXCEPT ![starts[j].w] = (j :> now) @@ @]
    /\ monitors' = monitors @@ (j :> [w |-> starts[j].w, pc |-> "wait"])
    /\ starts' = Drop(starts, j)
    /\ returned' = StartReturn(starts[j].url, j, "spawned",
                               StartReturnValue("spawned", get_recording(rows', j)))
    /\ UNCHANGED <<calls, now, nextId, files, busy, ops>>
    /\ UNCHANGED <<resolve, cleanup_loop>>

\* create_subprocess_exec raises: the row is marked failed and None returned.
StartSpawnFail(j) ==
    /\ j \in DOMAIN starts
    /\ busy[starts[j].w] = NoTask
    /\ rows' = update_recording_status(rows, j, "failed", <<"spawn error">>, now)
    /\ starts' = Drop(starts, j)
    /\ returned' = StartReturn(starts[j].url, j, "spawn_failed",
                               StartReturnValue("spawn_failed", NULL))
    /\ UNCHANGED <<calls, now, nextId, proc, files, processes, start_times, busy,
                   monitors, ops>>
    /\ UNCHANGED <<resolve, cleanup_loop>>

\* The task running start_recording is cancelled, or its worker dies, while it
\* awaits _prepare_stream_config: nothing after the await runs, and nothing
\* catches it, so the row stays as it is.
StartCancelled(j) ==
    /\ j \in DOMAIN starts
    /\ starts' = Drop(starts, j)
    /\ returned' = NULL
    /\ UNCHANGED <<calls, now, rows, nextId, proc, files, processes, start_times, busy,
                   monitors, ops>>
    /\ UNCHANGED <<resolve, cleanup_loop>>

\* ------------------------------------------------------------- _monitor_recording

\* stderr.decode(): strict UTF-8, raises on bytes that are not.
Decodes(stderr) == stderr # "undecodable"

\* error_msg = stderr_text[:500] if stderr_text else "Unknown error"
ErrorMsg(stderr) == IF stderr = "" THEN <<"Unknown error">> ELSE <<"stderr excerpt">>

\* returncode == 0 is completed, anything else failed.
MonitorStatus(returncode) == IF returncode = <<0>> THEN "completed" ELSE "failed"

\* communicate() returns, once the process has exited, what the process wrote
\* to stderr.  A monitor whose id is no longer in the registry returns; one
\* whose decode raises logs and pops; otherwise the exit code is classified
\* and written.
MonitorWake(j, stderr) ==
    /\ j \in DOMAIN monitors
    /\ monitors[j].pc = "wait"
    /\ ~proc[j].alive
    /\ busy[monitors[j].w] = NoTask
    /\ proc' = Drop(proc, j)
    /\ LET w == monitors[j].w
       IN IF j \notin processes[w]
          THEN /\ monitors' = Drop(monitors, j)
               /\ UNCHANGED <<rows, processes, start_times, busy>>
          ELSE IF ~Decodes(stderr)
          THEN /\ monitors' = Drop(monitors, j)
               /\ processes' = [processes EXCEPT ![w] = @ \ {j}]
               /\ start_times' = [start_times EXCEPT ![w] = Drop(@, j)]
               /\ UNCHANGED <<rows, busy>>
          ELSE /\ rows' = update_recording_status(rows, j,
                     MonitorStatus(proc[j].returncode),
                     IF MonitorStatus(proc[j].returncode) = "completed"
                     THEN NULL ELSE ErrorMsg(stderr), now)
               /\ monitors' = [monitors EXCEPT ![j].pc = "file"]
               /\ busy' = [busy EXCEPT ![w] = MonitorTask(j)]
               /\ UNCHANGED <<processes, start_times>>
    /\ UNCHANGED <<calls, now, nextId, files, starts, ops>>
    /\ returned' = NULL
    /\ UNCHANGED <<resolve, cleanup_loop>>

\* The row is read back; duration and size are stored when the file exists;
\* finally the handle and the start time are popped.
MonitorFinish(j) ==
    /\ j \in DOMAIN monitors
    /\ monitors[j].pc = "file"
    /\ busy[monitors[j].w] = MonitorTask(j)
    /\ LET w == monitors[j].w
           recording == get_recording(rows, j)
       IN /\ rows' = IF /\ recording # NULL
                        /\ recording[1].file_path # NULL
                        /\ recording[1].file_path[1] \in DOMAIN files
                     THEN update_recording_file_info(rows, j,
                              now - start_times[w][j],
                              files[recording[1].file_path[1]])
                     ELSE rows
          /\ processes' = [processes EXCEPT ![w] = @ \ {j}]
          /\ start_times' = [start_times EXCEPT ![w] = Drop(@, j)]
          /\ busy' = [busy EXCEPT ![w] = NoTask]
    /\ monitors' = Drop(monitors, j)
    /\ UNCHANGED <<calls, now, nextId, proc, files, starts, ops>>
    /\ returned' = NULL
    /\ UNCHANGED <<resolve, cleanup_loop>>

\* ------------------------------------------------------------- stop_recording

Running(s) == ops[s].pc # "idle"

\* The fields of the row that stop_recording reads later from its snapshot.
Snapshot(recording) ==
    IF recording = NULL THEN NoSnapshot
    ELSE [pid |-> recording[1].pid, file_path |-> recording[1].file_path,
          started_at |-> <<recording[1].started_at>>]

\* Where a call goes when the stop_recording it made (or was) returns.
AfterStop(op) ==
    CASE op.kind = "stop" -> IdleOp
      [] op.kind \in {"delete", "sweep"} ->
             [op EXCEPT !.pc = "del_get", !.rec = NoSnapshot, !.sent = <<>>]
      [] OTHER -> [op EXCEPT !.pc = "loop", !.rec = NoSnapshot, !.sent = <<>>]

\* Where a call goes when the delete_recording it made (or was) returns.
AfterDelete(op) ==
    IF op.kind = "delete" THEN IdleOp
    ELSE [op EXCEPT !.pc = "loop", !.rec = NoSnapshot]

\* The event loop of the worker of call s after a step that leaves the call at
\* pc: freed when the call returns or awaits, kept otherwise.
Awaits == {"idle", "stop_wait1", "stop_wait2", "stop_sleep"}
Loop(w, s, pc) == [busy EXCEPT ![w] = IF pc \in Awaits THEN NoTask ELSE OpTask(s)]

\* A mutant: a missing row is not noticed.
StopBranch_nocheck(recording, local) ==
    IF local THEN "local" ELSE "remote"

\* Where stop_recording goes after reading the row: not found, the local
\* handle, or the pid of the row.
StopBranch(recording, local) ==
    IF recording = NULL THEN "not_found"
    ELSE IF local THEN "local" ELSE "remote"

\* stop_recording up to its first await, for the call op in slot s: the row is
\* read; without a row it returns False.  With a local handle 'q' is written
\* to the stdin of the process and the exit awaited, or the write raises,
\* terminate() is tried (it raises, and is passed over, when the process has
\* exited) and the handle popped.  Without one the pid of the row is probed
\* and, if alive, sent SIGTERM before a sleep.
StopEnter(s, op) ==
    LET recording == get_recording(rows, op.id)
        branch == StopBranch(recording, op.id \in processes[op.w])
        read == [op EXCEPT !.rec = Snapshot(recording), !.sent = <<>>]
    IN CASE branch = "not_found" ->
              /\ ops' = [ops EXCEPT ![s] = AfterStop(op)]
              /\ busy' = Loop(op.w, s, AfterStop(op).pc)
              /\ returned' = OpReturn(op, AfterStop(op), "False")
              /\ UNCHANGED <<processes, start_times>>
         [] branch = "local" ->
              \/ /\ ops' = [ops EXCEPT ![s] = [read EXCEPT !.pc = "stop_wait1",
                                                  !.sent = <<<<"q", op.id>>>>]]
                 /\ busy' = Loop(op.w, s, "stop_wait1")
                 /\ returned' = NULL
                 /\ UNCHANGED <<processes, start_times>>
              \/ /\ ops' = [ops EXCEPT ![s] = [read EXCEPT !.pc = "stop_status",
                                !.sent = IF Alive(op.id) THEN <<<<"term", op.id>>>>
                                         ELSE <<>>]]
                 /\ processes' = [processes EXCEPT ![op.w] = @ \ {op.id}]
                 /\ start_times' = [start_times EXCEPT ![op.w] = Drop(@, op.id)]
                 /\ busy' = Loop(op.w, s, "stop_status")
                 /\ returned' = NULL
         [] OTHER ->
              /\ IF is_pid_running(proc, read.rec.pid)
                 THEN /\ ops' = [ops EXCEPT ![s] = [read EXCEPT !.pc = "stop_sleep",
                                    !.sent = <<<<"term", ProcessOfPid(read.rec.pid)>>>>]]
                      /\ busy' = Loop(op.w, s, "stop_sleep")
                 ELSE /\ ops' = [ops EXCEPT ![s] = [read EXCEPT !.pc = "stop_status"]]
                      /\ busy' = Loop(op.w, s, "stop_status")
              /\ returned' = NULL
              /\ UNCHANGED <<processes, start_times>>

\* The status of the row of id when a call is made, "none" without a row.
StatusAt(db, id) == IF id \in DOMAIN db THEN db[id].status ELSE "none"

\* Only stop_recording writes 'stopped': a row has it once a stop has stopped the job.
AlreadyStopped(db, id) == id \in DOMAIN db /\ db[id].status = "stopped"

\* A caller invokes stop_recording(id).
StopCall(s, w, id) ==
    /\ ~Running(s)
    /\ busy[w] = NoTask
    /\ calls < MaxCalls
    /\ Spent < MaxEffort
    /\ calls' = calls + 1
    /\ StopEnter(s, [IdleOp EXCEPT !.kind = "stop", !.w = w, !.id = id,
                                   !.already = AlreadyStopped(rows, id),
                                   !.at = StatusAt(rows, id),
                                   !.held = {id} \cap processes[w]])
    /\ UNCHANGED <<now, rows, nextId, proc, files, starts, monitors>>
    /\ UNCHANGED <<resolve, cleanup_loop>>

\* self.db.update_recording_status(recording_id, 'stopped')
SetStopped(db, id, t) == update_recording_status(db, id, "stopped", NULL, t)

\* wait_for(process.wait(), ...) returns: the process has exited.  The handle
\* is popped and the row set to stopped.
StopWaitExited(s) ==
    /\ ops[s].pc \in {"stop_wait1", "stop_wait2"}
    /\ busy[ops[s].w] = NoTask
    /\ ~Alive(ops[s].id)
    /\ processes' = [processes EXCEPT ![ops[s].w] = @ \ {ops[s].id}]
    /\ start_times' = [start_times EXCEPT ![ops[s].w] = Drop(@, ops[s].id)]
    /\ rows' = SetStopped(rows, ops[s].id, now)
    /\ ops' = [ops EXCEPT ![s].pc = "stop_file"]
    /\ busy' = Loop(ops[s].w, s, "stop_file")
    /\ returned' = NULL
    /\ UNCHANGED <<calls, now, nextId, proc, files, starts, monitors>>
    /\ UNCHANGED <<resolve, cleanup_loop>>

\* The first wait times out: terminate(), and a second, shorter wait.
StopTerminate(s) ==
    /\ ops[s].pc = "stop_wait1"
    /\ busy[ops[s].w] = NoTask
    /\ Alive(ops[s].id)
    /\ ops' = [ops EXCEPT ![s].pc = "stop_wait2",
                          ![s].sent = Append(@, <<"term", ops[s].id>>)]
    /\ returned' = NULL
    /\ UNCHANGED <<calls, now, rows, nextId, proc, files, processes, start_times,
                   busy, starts, monitors>>
    /\ UNCHANGED <<resolve, cleanup_loop>>

\* A mutant: kill() follows the first wait already.
StopKill_early(s) ==
    /\ ops[s].pc \in {"stop_wait1", "stop_wait2"}
    /\ busy[ops[s].w] = NoTask
    /\ Alive(ops[s].id)
    /\ proc' = [proc EXCEPT ![ops[s].id].alive = FALSE,
                            ![ops[s].id].returncode = <<1>>]
    /\ processes' = [processes EXCEPT ![ops[s].w] = @ \ {ops[s].id}]
    /\ start_times' = [start_times EXCEPT ![ops[s].w] = Drop(@, ops[s].id)]
    /\ ops' = [ops EXCEPT ![s].pc = "stop_status",
                          ![s].sent = Append(@, <<"kill", ops[s].id>>)]
    /\ busy' = Loop(ops[s].w, s, "stop_status")
    /\ returned' = NULL
    /\ UNCHANGED <<calls, now, rows, nextId, files, starts, monitors>>
    /\ UNCHANGED <<resolve, cleanup_loop>>

\* The second wait times out: kill(); the handle is popped.
StopKill(s) ==
    /\ ops[s].pc = "stop_wait2"
    /\ busy[ops[s].w] = NoTask
    /\ Alive(ops[s].id)
    /\ proc' = [proc EXCEPT ![ops[s].id].alive = FALSE,
                            ![ops[s].id].returncode = <<1>>]
    /\ processes' = [processes EXCEPT ![ops[s].w] = @ \ {ops[s].id}]
    /\ start_times' = [start_times EXCEPT ![ops[s].w] = Drop(@, ops[s].id)]
    /\ ops' = [ops EXCEPT ![s].pc = "stop_status",
                          ![s].sent = Append(@, <<"kill", ops[s].id>>)]
    /\ busy' = Loop(ops[s].w, s, "stop_status")
    /\ returned' = NULL
    /\ UNCHANGED <<calls, now, rows, nextId, files, starts, monitors>>
    /\ UNCHANGED <<resolve, cleanup_loop>>

\* A mutant: after the sleep SIGKILL is sent without a probe.
StopRemoteKill_noprobe(s) ==
    /\ ops[s].pc = "stop_sleep"
    /\ busy[ops[s].w] = NoTask
    /\ ops' = [ops EXCEPT ![s].pc = "stop_status",
                          ![s].sent = Append(@, <<"kill", ops[s].sent[1][2]>>)]
    /\ proc' = [j \in DOMAIN proc |->
                   IF <<proc[j].pid>> = ops[s].rec.pid /\ proc[j].alive
                   THEN [proc[j] EXCEPT !.alive = FALSE, !.returncode = <<1>>]
                   ELSE proc[j]]
    /\ busy' = Loop(ops[s].w, s, "stop_status")
    /\ returned' = NULL
    /\ UNCHANGED <<calls, now, rows, nextId, files, processes, start_times, starts,
                   monitors>>
    /\ UNCHANGED <<resolve, cleanup_loop>>

\* After the sleep the pid is probed again and, if still alive, sent SIGKILL.
StopRemoteKill(s) ==
    /\ ops[s].pc = "stop_sleep"
    /\ busy[ops[s].w] = NoTask
    /\ LET pid == ops[s].rec.pid
       IN IF is_pid_running(proc, pid)
          THEN /\ ops' = [ops EXCEPT ![s].pc = "stop_status",
                                     ![s].sent = Append(@, <<"kill", ProcessOfPid(pid)>>)]
               /\ proc' = [proc EXCEPT ![ProcessOfPid(pid)].alive = FALSE,
                                       ![ProcessOfPid(pid)].returncode = <<1>>]
          ELSE /\ ops' = [ops EXCEPT ![s].pc = "stop_status"]
               /\ UNCHANGED proc
    /\ busy' = Loop(ops[s].w, s, "stop_status")
    /\ returned' = NULL
    /\ UNCHANGED <<calls, now, rows, nextId, files, processes, start_times, starts,
                   monitors>>
    /\ UNCHANGED <<resolve, cleanup_loop>>

\* The row is set to stopped (after kill(), a failed write of 'q', or the
\* signals to the pid of the row).
StopSetStatus(s) ==
    /\ ops[s].pc = "stop_status"
    /\ busy[ops[s].w] = OpTask(s)
    /\ rows' = SetStopped(rows, ops[s].id, now)
    /\ ops' = [ops EXCEPT ![s].pc = "stop_file"]
    /\ returned' = NULL
    /\ UNCHANGED <<calls, now, nextId, proc, files, processes, start_times, busy,
                   starts, monitors>>
    /\ UNCHANGED <<resolve, cleanup_loop>>

\* Duration and size are stored when the snapshot has a file_path whose file
\* exists; stop_recording returns True.
StopFinish(s) ==
    /\ ops[s].pc = "stop_file"
    /\ busy[ops[s].w] = OpTask(s)
    /\ LET recording == ops[s].rec
           op == AfterStop(ops[s])
       IN /\ rows' = IF /\ recording.file_path # NULL
                        /\ recording.file_path[1] \in DOMAIN files
                     THEN update_recording_file_info(rows, ops[s].id,
                              now - recording.started_at[1],
                              files[recording.file_path[1]])
                     ELSE rows
          /\ ops' = [ops EXCEPT ![s] = op]
          /\ busy' = Loop(ops[s].w, s, op.pc)
          /\ returned' = OpReturn(ops[s], op, "True")
    /\ UNCHANGED <<calls, now, nextId, proc, files, processes, start_times, starts,
                   monitors>>
    /\ UNCHANGED <<resolve, cleanup_loop>>

\* ------------------------------------------------------------- delete_recording

\* delete_recording after its stop_recording, if any: the row is read; without
\* a row it returns False.  The output file, when it exists, is removed, or
\* the failure to remove it is logged.
DeleteRead(s, op) ==
    LET recording == get_recording(rows, op.id)
    IN IF recording = NULL
       THEN /\ ops' = [ops EXCEPT ![s] = AfterDelete(op)]
            /\ busy' = Loop(op.w, s, AfterDelete(op).pc)
            /\ returned' = OpReturn(op, AfterDelete(op), "False")
            /\ UNCHANGED files
       ELSE /\ ops' = [ops EXCEPT ![s] = [op EXCEPT !.pc = "del_row"]]
            /\ busy' = Loop(op.w, s, "del_row")
            /\ returned' = NULL
            /\ IF /\ recording[1].file_path # NULL
                  /\ recording[1].file_path[1] \in DOMAIN files
               THEN \/ files' = Drop(files, recording[1].file_path[1])
                    \/ UNCHANGED files
               ELSE UNCHANGED files

\* delete_recording up to its first await: the recording is stopped first when
\* this worker holds its handle.
DeleteEnter(s, op) ==
    IF op.id \in processes[op.w]
    THEN StopEnter(s, op) /\ UNCHANGED files
    ELSE DeleteRead(s, op) /\ UNCHANGED <<processes, start_times>>

\* A caller invokes delete_recording(id).
DeleteCall(s, w, id) ==
    /\ ~Running(s)
    /\ busy[w] = NoTask
    /\ calls < MaxCalls
    /\ Spent < MaxEffort
    /\ calls' = calls + 1
    /\ DeleteEnter(s, [IdleOp EXCEPT !.kind = "delete", !.w = w, !.id = id,
                                     !.at = StatusAt(rows, id)])
    /\ UNCHANGED <<now, rows, nextId, proc, starts, monitors>>
    /\ UNCHANGED <<resolve, cleanup_loop>>

\* delete_recording goes on after the stop_recording it awaited.
DeleteGet(s) ==
    /\ ops[s].pc = "del_get"
    /\ busy[ops[s].w] = OpTask(s)
    /\ DeleteRead(s, ops[s])
    /\ UNCHANGED <<calls, now, rows, nextId, proc, processes, start_times, starts,
                   monitors>>
    /\ UNCHANGED <<resolve, cleanup_loop>>

\* return self.db.delete_recording(recording_id)
DeleteRow(s) ==
    /\ ops[s].pc = "del_row"
    /\ busy[ops[s].w] = OpTask(s)
    /\ LET del == delete_recording_row(rows, ops[s].id)
           op == AfterDelete(ops[s])
       IN /\ rows' = del.db
          /\ ops' = [ops EXCEPT ![s] = op]
          /\ busy' = Loop(ops[s].w, s, op.pc)
          /\ returned' = OpReturn(ops[s], op, IF del.deleted THEN "True" ELSE "False")
    /\ UNCHANGED <<calls, now, nextId, proc, files, processes, start_times, starts,
                   monitors>>
    /\ UNCHANGED <<resolve, cleanup_loop>>

\* ------------------------------------------------------------- retention sweep, shutdown

\* One iteration of cleanup_loop: cleanup_old_recordings reads the old rows.
SweepCall(s, w) ==
    /\ ~Running(s)
    /\ busy[w] = NoTask
    /\ calls < MaxCalls
    /\ Spent < MaxEffort
    /\ calls' = calls + 1
    /\ ops' = [ops EXCEPT ![s] = [IdleOp EXCEPT !.kind = "sweep", !.w = w, !.pc = "loop",
                    !.todo = get_old_recordings(rows, RetentionHorizon, now)]]
    /\ busy' = Loop(w, s, "loop")
    /\ returned' = NULL
    /\ UNCHANGED <<now, rows, nextId, proc, files, processes, start_times, starts,
                   monitors>>
    /\ UNCHANGED <<resolve, cleanup_loop>>

\* shutdown(): for recording_id in list(self.processes.keys())
ShutdownCall(s, w) ==
    /\ ~Running(s)
    /\ busy[w] = NoTask
    /\ calls < MaxCalls
    /\ Spent < MaxEffort
    /\ calls' = calls + 1
    /\ ops' = [ops EXCEPT ![s] = [IdleOp EXCEPT !.kind = "shutdown", !.w = w,
                                     !.pc = "loop", !.todo = processes[w],
                                     !.held = processes[w]]]
    /\ busy' = Loop(w, s, "loop")
    /\ returned' = NULL
    /\ UNCHANGED <<now, rows, nextId, proc, files, processes, start_times, starts,
                   monitors>>
    /\ UNCHANGED <<resolve, cleanup_loop>>

\* The for loop of the sweep (delete_recording of the next id) and of shutdown
\* (stop_recording of the next id); the call returns when the list is done.
LoopNext(s) ==
    /\ ops[s].pc = "loop"
    /\ busy[ops[s].w] = OpTask(s)
    /\ IF ops[s].todo = {}
       THEN /\ ops' = [ops EXCEPT ![s] = IdleOp]
            /\ busy' = Loop(ops[s].w, s, "idle")
            /\ returned' = OpReturn(ops[s], IdleOp, "None")
            /\ UNCHANGED <<files, processes, start_times>>
       ELSE \E id \in ops[s].todo :
               LET op == [ops[s] EXCEPT !.id = id, !.todo = @ \ {id}]
               IN IF op.kind = "sweep"
                  THEN DeleteEnter(s, op)
                  ELSE StopEnter(s, op) /\ UNCHANGED files
    /\ UNCHANGED <<calls, now, rows, nextId, proc, starts, monitors>>
    /\ UNCHANGED <<resolve, cleanup_loop>>

\* ------------------------------------------------------------- cleanup_loop

\* The stores the loop is looked at on: the rows of jobs whose start failed
\* at the spawn or was abandoned after the claim, of any age.
LoopRows ==
    {NewRow(url, t) : url \in Urls, t \in 0..MaxTime}
    \cup {[NewRow(url, t) EXCEPT !.status = "failed", !.stopped_at = <<t>>,
                                 !.error_message = <<"spawn error">>] :
              url \in Urls, t \in 0..MaxTime}

LoopStores ==
    {db \in UNION {[S -> LoopRows] : S \in SUBSET JobIds} : idx_recordings_active_url(db)}

LoopInit ==
    /\ now = MaxTime
    /\ rows \in LoopStores
    /\ nextId = MaxJobs + 1
    /\ proc = <<>>
    /\ files = <<>>
    /\ processes = [w \in Workers |-> {}]
    /\ start_times = [w \in Workers |-> <<>>]
    /\ busy = [w \in Workers |-> NoTask]
    /\ starts = <<>>
    /\ monitors = <<>>
    /\ ops = [s \in Slots |-> IdleOp]
    /\ calls = 0
    /\ returned = NULL
    /\ resolve = NoResolve
    /\ \E w \in Workers : cleanup_loop = Asleep(w, "none")

\* asyncio.sleep(3600) returns and the next iteration begins:
\* cleanup_old_recordings reads the old rows.
CleanupWake(s) ==
    /\ cleanup_loop.pc = "sleep"
    /\ ~Running(s)
    /\ busy[cleanup_loop.w] = NoTask
    /\ cleanup_loop' = [cleanup_loop EXCEPT !.pc = "run"]
    /\ ops' = [ops EXCEPT ![s] = [IdleOp EXCEPT !.kind = "sweep", !.w = cleanup_loop.w,
                    !.pc = "loop",
                    !.todo = get_old_recordings(rows, RetentionHorizon, now)]]
    /\ busy' = Loop(cleanup_loop.w, s, "loop")
    /\ returned' = NULL
    /\ UNCHANGED <<calls, now, rows, nextId, proc, files, processes, start_times, starts,
                   monitors, resolve>>

\* A mutant: the error of an iteration is not caught and ends the task.
CleanupRaises_uncaught(s) ==
    /\ cleanup_loop.pc = "run"
    /\ ops[s].kind = "sweep"
    /\ busy[ops[s].w] = OpTask(s)
    /\ cleanup_loop' = [cleanup_loop EXCEPT !.pc = "ended", !.last = "failed"]
    /\ ops' = [ops EXCEPT ![s] = IdleOp]
    /\ busy' = Loop(ops[s].w, s, "idle")
    /\ returned' = NULL
    /\ UNCHANGED <<calls, now, rows, nextId, proc, files, processes, start_times, starts,
                   monitors, resolve>>

\* cleanup_old_recordings raises in the iteration: the error is caught and
\* logged, and the loop goes to its sleep.
CleanupRaises(s) ==
    /\ cleanup_loop.pc = "run"
    /\ ops[s].kind = "sweep"
    /\ busy[ops[s].w] = OpTask(s)
    /\ cleanup_loop' = Asleep(cleanup_loop.w, "failed")
    /\ ops' = [ops EXCEPT ![s] = IdleOp]
    /\ busy' = Loop(ops[s].w, s, "idle")
    /\ returned' = NULL
    /\ UNCHANGED <<calls, now, rows, nextId, proc, files, processes, start_times, starts,
                   monitors, resolve>>

\* cleanup_old_recordings has returned: the loop goes to its sleep.
CleanupSleep ==
    /\ cleanup_loop.pc = "run"
    /\ \A s \in Slots : ops[s].kind # "sweep"
    /\ cleanup_loop' = Asleep(cleanup_loop.w, "done")
    /\ returned' = NULL
    /\ UNCHANGED <<machine_but_returned, resolve>>

CleanupNext ==
    \/ \E s \in Slots : CleanupWake(s)
    \/ \E s \in Slots : LoopNext(s)
    \/ \E s \in Slots : DeleteRow(s)
    \/ \E s \in Slots : CleanupRaises(s)
    \/ CleanupSleep

\* The cleanup_loop of a worker on a store, alone: a sleep that is awaited
\* returns, and a task that can run is run.
CleanupSpec ==
    /\ LoopInit
    /\ [][CleanupNext]_vars
    /\ WF_vars(\E s \in Slots : CleanupWake(s))
    /\ WF_vars(\E s \in Slots : LoopNext(s))
    /\ WF_vars(\E s \in Slots : DeleteRow(s))
    /\ WF_vars(CleanupSleep)

\* ------------------------------------------------------------- stream resolution

\* A url is looked at through the indicators its lower-cased text contains.
Indicators ==
    {".mpd", "vavoo.to", "popcdn.day", "freeshot", "daddylive", "dlhd", "daddyhd",
     "sportsonline", "sportzonline"}

StreamTypes == {"MPD", "VAVOO", "FREESHOT", "DLHD", "SPORTSONLINE", "GENERIC"}

\* A mutant: the provider hostnames are looked for before the MPD indicator.
detect_stream_type_hostfirst(url) ==
    IF "vavoo.to" \in url THEN "VAVOO"
    ELSE IF url \cap {"popcdn.day", "freeshot"} # {} THEN "FREESHOT"
    ELSE IF url \cap {"daddylive", "dlhd", "daddyhd"} # {} THEN "DLHD"
    ELSE IF url \cap {"sportsonline", "sportzonline"} # {} THEN "SPORTSONLINE"
    ELSE IF ".mpd" \in url THEN "MPD"
    ELSE "GENERIC"

\* _detect_stream_type: the first matching test of the if / elif chain.
detect_stream_type(url) ==
    IF ".mpd" \in url THEN "MPD"
    ELSE IF "vavoo.to" \in url THEN "VAVOO"
    ELSE IF url \cap {"popcdn.day", "freeshot"} # {} THEN "FREESHOT"
    ELSE IF url \cap {"daddylive", "dlhd", "daddyhd"} # {} THEN "DLHD"
    ELSE IF url \cap {"sportsonline", "sportzonline"} # {} THEN "SPORTSONLINE"
    ELSE "GENERIC"

\* The lines of a master playlist.  kind: "inf" an #EXT-X-STREAM-INF tag,
\* "audio" an #EXT-X-MEDIA tag with TYPE=AUDIO, "comment" any other line that
\* begins with #, "blank" an empty line, "uri" any other line.  uri: the text
\* of a "uri" line or the quoted URI attribute of an "audio" line, NULL when
\* the line has none.  dflt: the "audio" line carries DEFAULT=YES.
MaxLines == 4
NumUris == 2
Uris == {<<u>> : u \in 1..NumUris}

Line(kind, uri, dflt) == [kind |-> kind, uri |-> uri, dflt |-> dflt]

PlaylistLines ==
    {Line(k, NULL, FALSE) : k \in {"inf", "comment", "blank"}}
    \cup {Line("uri", u, FALSE) : u \in Uris}
    \cup {Line("audio", u, d) : u \in Uris \cup {NULL}, d \in BOOLEAN}

Playlists == UNION {[1..n -> PlaylistLines] : n \in 0..MaxLines}

\* content.strip(): blank lines at both ends go.
RECURSIVE Strip(_)
Strip(lines) ==
    IF lines = <<>> THEN lines
    ELSE IF Head(lines).kind = "blank" THEN Strip(Tail(lines))
    ELSE IF lines[Len(lines)].kind = "blank" THEN Strip(SubSeq(lines, 1, Len(lines) - 1))
    ELSE lines

\* The loop over the lines from line i on, with the urls found so far: an
\* "audio" line with a URI sets audio_url while it is None (the test of
\* DEFAULT=YES is or-ed with audio_url is None, which holds there); otherwise
\* an "inf" line whose next line is not empty and not a # line sets video_url.
RECURSIVE ScanLines(_, _, _, _)
ScanLines(lines, i, video_url, audio_url) ==
    IF i > Len(lines) THEN <<video_url, audio_url>>
    ELSE LET line == lines[i]
         IN IF line.kind = "audio"
            THEN ScanLines(lines, i + 1, video_url,
                     IF line.uri # NULL /\ audio_url = NULL
                        /\ (line.dflt \/ audio_url = NULL)
                     THEN line.uri ELSE audio_url)
            ELSE IF line.kind = "inf" /\ i + 1 <= Len(lines) /\ lines[i + 1].kind = "uri"
            THEN ScanLines(lines, i + 1, lines[i + 1].uri, audio_url)
            ELSE ScanLines(lines, i + 1, video_url, audio_url)

\* The answers of the proxy to the GET of the master playlist: 200 with a
\* body, another status, or a failed request.
Responses ==
    {[status |-> "200", content |-> c] : c \in Playlists}
    \cup {[status |-> st, content |-> <<>>] : st \in {"other", "raises"}}

\* _parse_master_playlist: (None, None) unless the answer is a 200.
parse_master_playlist(response) ==
    IF response.status # "200" THEN <<NULL, NULL>>
    ELSE ScanLines(Strip(response.content), 1, NULL, NULL)

\* A clearkey is a string over KeyChars, of MaxKeyLen characters at most.
MaxKeyLen == 3
KeyChars == {"a", ":"}
KeyStrings == UNION {[1..n -> KeyChars] : n \in 0..MaxKeyLen}
ClearKeys == {NULL} \cup {<<k>> : k \in KeyStrings}

\* ':' in clearkey
HasColon(k) == \E i \in 1..Len(k) : k[i] = ":"

\* A mutant: the clearkey is split at its last colon.
split_last(k) ==
    LET i == CHOOSE c \in 1..Len(k) : k[c] = ":" /\ \A j \in (c + 1)..Len(k) : k[j] # ":"
    IN <<SubSeq(k, 1, i - 1), SubSeq(k, i + 1, Len(k))>>

\* clearkey.split(':', 1) of a clearkey with a colon
split_once(k) ==
    LET i == CHOOSE c \in 1..Len(k) : k[c] = ":" /\ \A j \in 1..(c - 1) : k[j] # ":"
    IN <<SubSeq(k, 1, i - 1), SubSeq(k, i + 1, Len(k))>>

\* _build_proxy_params: the query parameters of every request to the local
\* proxy; api_password says whether API_PASSWORD is set.
build_proxy_params(url, api_password) ==
    LET params == ("d" :> <<"url", url>>) @@ ("no_bypass" :> <<"1">>)
    IN IF api_password THEN ("api_password" :> <<"API_PASSWORD">>) @@ params ELSE params

\* A url of the local proxy, http://127.0.0.1:PORT/<route>?<params>, and the
\* url that a uri line or URI attribute of a playlist holds.
ProxyUrl(route, params) == [route |-> route, params |-> params]
PlaylistUrl(u) == [route |-> "playlist", params |-> ("uri" :> u)]

\* The text of the uris of a playlist: the odd ones are absolute http urls
\* of an .m3u8, the even ones relative paths of another name.
AbsoluteM3u8(u) == u % 2 = 1

\* url.startswith('http') and '.m3u8' in url.lower(): both hold of every
\* proxy url (http://127.0.0.1:.../manifest.m3u8?...).
startswith_http(url) == url.route = "playlist" => AbsoluteM3u8(url.params["uri"])
contains_m3u8(url) == url.route = "playlist" => AbsoluteM3u8(url.params["uri"])

StreamConfig(video_url, audio_url, stream_type, needs_reconnect, needs_extended_probe) ==
    [video_url |-> video_url, audio_url |-> audio_url, stream_type |-> stream_type,
     needs_reconnect |-> needs_reconnect, needs_extended_probe |-> needs_extended_probe]

\* A mutant: VAVOO is missing from the reconnect types.
RECONNECT_TYPES_novavoo == {"FREESHOT", "DLHD", "SPORTSONLINE", "MPD"}

RECONNECT_TYPES == {"VAVOO", "FREESHOT", "DLHD", "SPORTSONLINE", "MPD"}

\* The master url that _prepare_mpd_config requests: the key parameters are
\* added for a clearkey that is not empty and has a colon.
mpd_master_url(url, clearkey, api_password) ==
    LET proxy_params == build_proxy_params(url, api_password)
    IN ProxyUrl("/proxy/mpd/manifest.m3u8",
           IF clearkey # NULL /\ clearkey[1] # <<>> /\ HasColon(clearkey[1])
           THEN ("key_id" :> split_once(clearkey[1])[1])
                @@ ("key" :> split_once(clearkey[1])[2]) @@ proxy_params
           ELSE proxy_params)

\* A mutant: the fallback to the master url keeps the audio url that was found.
prepare_mpd_config_keepaudio(url, clearkey, api_password, response) ==
    LET master_url == mpd_master_url(url, clearkey, api_password)
        parsed == parse_master_playlist(response)
    IN StreamConfig(IF parsed[1] = NULL THEN master_url ELSE PlaylistUrl(parsed[1][1]),
                    IF parsed[2] = NULL THEN NULL ELSE <<PlaylistUrl(parsed[2][1])>>,
                    "MPD", TRUE, TRUE)

\* _prepare_mpd_config: the urls parsed from the answer to the request of the
\* master url, and the master url alone when no video url was parsed.
prepare_mpd_config(url, clearkey, api_password, response) ==
    LET master_url == mpd_master_url(url, clearkey, api_password)
        parsed == parse_master_playlist(response)
    IN IF parsed[1] = NULL
       THEN StreamConfig(master_url, NULL, "MPD", TRUE, TRUE)
       ELSE StreamConfig(PlaylistUrl(parsed[1][1]),
                         IF parsed[2] = NULL THEN NULL ELSE <<PlaylistUrl(parsed[2][1])>>,
                         "MPD", TRUE, TRUE)

\* _prepare_hls_config
prepare_hls_config(url, stream_type, api_password) ==
    StreamConfig(ProxyUrl("/proxy/hls/manifest.m3u8", build_proxy_params(url, api_password)),
                 NULL, stream_type, stream_type \in RECONNECT_TYPES, FALSE)

\* _prepare_stream_config
prepare_stream_config(url, clearkey, api_password, response) ==
    LET stream_type == detect_stream_type(url)
    IN IF stream_type = "MPD"
       THEN prepare_mpd_config(url, clearkey, api_password, response)
       ELSE prepare_hls_config(url, stream_type, api_password)

\* The words of an argv: an option or value written in the code, the string
\* of a number, or a url.
Word(text) == [text |-> text]
Number(n) == [number |-> n]

\* A mutant: the reconnect options are never added.
network_options_noreconnect(config) ==
    IF startswith_http(config.video_url)
    THEN <<Word("-rw_timeout"), Word("30000000")>>
    ELSE <<>>

\* _build_ffmpeg_command, lines 264-273: the network options of the video input
network_options(config) ==
    IF startswith_http(config.video_url)
    THEN <<Word("-rw_timeout"), Word("30000000")>>
         \o (IF config.needs_reconnect
             THEN <<Word("-reconnect"), Word("1"), Word("-reconnect_streamed"), Word("1"),
                    Word("-reconnect_delay_max"), Word("2")>>
             ELSE <<>>)
    ELSE <<>>

\* lines 249-262: the probe settings
probe_options(config) ==
    IF config.needs_extended_probe
    THEN <<Word("-err_detect"), Word("ignore_err"),
           Word("-fflags"), Word("+genpts+discardcorrupt+igndts+nobuffer"),
           Word("-analyzeduration"), Word("20000000"), Word("-probesize"), Word("20000000")>>
    ELSE <<Word("-fflags"), Word("+genpts+discardcorrupt+igndts"),
           Word("-analyzeduration"), Word("10000000"), Word("-probesize"), Word("10000000")>>

\* lines 286-291: the separate audio input
audio_input(config) ==
    IF config.audio_url # NULL
    THEN (IF startswith_http(config.audio_url[1])
          THEN <<Word("-rw_timeout"), Word("30000000")>> ELSE <<>>)
         \o <<Word("-live_start_index"), Word("-1"), Word("-i"), config.audio_url[1]>>
    ELSE <<>>

\* lines 293-300: the stream mapping
stream_mapping(config) ==
    IF config.audio_url # NULL
    THEN <<Word("-map"), Word("0:v:0"), Word("-map"), Word("1:a:0")>>
    ELSE <<Word("-map"), Word("0:v:0"), Word("-map"), Word("0:a:0?")>>

\* _build_ffmpeg_command: a duration of None or 0 adds no -t.
build_ffmpeg_command(config, output_path, duration) ==
    <<Word("ffmpeg"), Word("-hide_banner"), Word("-loglevel"), Word("info"), Word("-y")>>
    \o probe_options(config)
    \o network_options(config)
    \o (IF contains_m3u8(config.video_url)
        THEN <<Word("-live_start_index"), Word("-1")>> ELSE <<>>)
    \o (IF duration # NULL /\ duration[1] # 0
        THEN <<Word("-t"), Number(duration[1])>> ELSE <<>>)
    \o <<Word("-i"), config.video_url>>
    \o audio_input(config)
    \o stream_mapping(config)
    \o <<Word("-c"), Word("copy"), output_path>>

\* The default of max_duration, the duration that start_recording passes on
\* when none is asked for, and the path of the output file.
max_duration == 28800
file_path == [path |-> "recordings_dir/filename"]

\* The configurations that a command is built for: every stream type and
\* flag, with a proxy url or a playlist url as the video url and no audio
\* url or a playlist url as the audio url.
BuildUrls ==
    {ProxyUrl(route, build_proxy_params({}, FALSE)) :
        route \in {"/proxy/hls/manifest.m3u8", "/proxy/mpd/manifest.m3u8"}}
    \cup {PlaylistUrl(u) : u \in 1..NumUris}

BuildCalls ==
    {[fn |-> "_build_ffmpeg_command",
      arg |-> [config |-> StreamConfig(v, a, t, r, e), duration |-> d],
      out |-> NULL] :
        v \in BuildUrls, a \in {NULL} \cup {<<PlaylistUrl(u)>> : u \in 1..NumUris},
        t \in StreamTypes, r \in BOOLEAN, e \in BOOLEAN,
        d \in {NULL, <<0>>, <<max_duration>>}}

\* The urls that configurations are prepared for, one of each type, and the
\* answers to the request of the master url: playlists of MaxManifestLines
\* lines at most, or no playlist; NotRequested when no request is made.
PrepareUrls ==
    {{".mpd"}, {"vavoo.to"}, {"freeshot"}, {"dlhd"}, {"sportsonline"}, {}}

MaxManifestLines == 3

ManifestResponses ==
    {[status |-> "200", content |-> c] :
        c \in UNION {[1..n -> PlaylistLines] : n \in 0..MaxManifestLines}}
    \cup {[status |-> st, content |-> <<>>] : st \in {"other", "raises"}}

NotRequested == [status |-> "none", content |-> <<>>]

ResponsesTo(url) ==
    IF detect_stream_type(url) = "MPD" THEN ManifestResponses ELSE {NotRequested}

PrepareCall(url, clearkey, api_password, response) ==
    [fn |-> "_prepare_stream_config",
     arg |-> [url |-> url, clearkey |-> clearkey, api_password |-> api_password,
              response |-> response],
     request |-> NULL, out |-> NULL, duration |-> NULL, cmd |-> NULL]

\* The calls looked at: each function with each of its arguments.
ResolveCalls ==
    {[fn |-> "_detect_stream_type", arg |-> url, out |-> NULL] : url \in SUBSET Indicators}
    \cup {[fn |-> "_parse_master_playlist", arg |-> r, out |-> NULL] : r \in Responses}
    \cup BuildCalls

ResolveInit ==
    /\ MachineInit
    /\ cleanup_loop = Asleep(1, "none")
    /\ \/ resolve \in ResolveCalls
       \/ \E url \in PrepareUrls, clearkey \in ClearKeys, api_password \in BOOLEAN :
             \E response \in ResponsesTo(url) :
                resolve = PrepareCall(url, clearkey, api_password, response)

DetectStreamType ==
    /\ resolve.fn = "_detect_stream_type"
    /\ resolve.out = NULL
    /\ resolve' = [resolve EXCEPT !.out = <<detect_stream_type(resolve.arg)>>]
    /\ UNCHANGED <<machine, cleanup_loop>>

ParseMasterPlaylist ==
    /\ resolve.fn = "_parse_master_playlist"
    /\ resolve.out = NULL
    /\ resolve' = [resolve EXCEPT !.out = <<parse_master_playlist(resolve.arg)>>]
    /\ UNCHANGED <<machine, cleanup_loop>>

\* start_recording, line 353: the configuration of the stream, with the
\* request of the master url when one is made.
PrepareStreamConfig ==
    /\ resolve.fn = "_prepare_stream_config"
    /\ resolve.out = NULL
    /\ LET a == resolve.arg
       IN resolve' =
              [resolve EXCEPT
                  !.request = IF detect_stream_type(a.url) = "MPD"
                              THEN <<mpd_master_url(a.url, a.clearkey, a.api_password)>>
                              ELSE NULL,
                  !.out = <<prepare_stream_config(a.url, a.clearkey, a.api_password,
                                                  a.response)>>]
    /\ UNCHANGED <<machine, cleanup_loop>>

\* A mutant: the duration asked for is passed on as it is.
clamp_duration_unclamped(duration) ==
    IF duration # NULL /\ duration[1] # 0 THEN duration ELSE <<max_duration>>

\* min(duration, self.max_duration)
Min(a, b) == IF a <= b THEN a ELSE b

\* start_recording, lines 346-350: a duration of None or 0 is the ceiling.
clamp_duration(duration) ==
    IF duration # NULL /\ duration[1] # 0
    THEN <<Min(duration[1], max_duration)>>
    ELSE <<max_duration>>

\* The durations a caller asks for: none, zero, a negative one, and durations
\* below, at and above the ceiling.
Durations ==
    {NULL, <<0>>, <<-1>>, <<1>>, <<max_duration>>, <<max_duration + 1>>}

\* start_recording, lines 346-356: the duration asked for is clamped and the
\* command of the configuration prepared is built with it.
StartBuildCommand ==
    /\ resolve.fn = "_prepare_stream_config"
    /\ resolve.out # NULL
    /\ resolve.cmd = NULL
    /\ \E duration \in Durations :
          resolve' = [resolve EXCEPT
                          !.duration = duration,
                          !.cmd = <<build_ffmpeg_command(resolve.out[1], file_path,
                                                         clamp_duration(duration))>>]
    /\ UNCHANGED <<machine, cleanup_loop>>

BuildFfmpegCommand ==
    /\ resolve.fn = "_build_ffmpeg_command"
    /\ resolve.out = NULL
    /\ resolve' = [resolve EXCEPT
                       !.out = <<build_ffmpeg_command(resolve.arg.config, file_path,
                                                      resolve.arg.duration)>>]
    /\ UNCHANGED <<machine, cleanup_loop>>

ResolveNext ==
    \/ DetectStreamType
    \/ ParseMasterPlaylist
    \/ PrepareStreamConfig
    \/ StartBuildCommand
    \/ BuildFfmpegCommand

\* The functions of the stream resolution, each applied once to an argument.
ResolveSpec == ResolveInit /\ [][ResolveNext]_vars

\* ------------------------------------------------------------- queries

\* RecordingDB.get_all_recordings: the ids of the rows, of one status when a
\* status is given (the LIMIT of 100 rows is above every bound here).
get_all_recordings(db, status) ==
    IF status = NULL THEN DOMAIN db
    ELSE {id \in DOMAIN db : db[id].status = status[1]}

\* RecordingDB.get_active_recordings
db_get_active_recordings(db) == get_all_recordings(db, <<"recording">>)

\* _is_recording_active: a row in recording or starting whose pid, when it has
\* one, is the pid of a live process; without a pid a starting row counts,
\* and a recording row counts when this worker holds its handle.
is_recording_active(db, id, table, handles) ==
    IF db[id].status \notin {"recording", "starting"} THEN FALSE
    ELSE IF db[id].pid # NULL THEN is_pid_running(table, db[id].pid)
    ELSE IF db[id].status = "starting" THEN TRUE
    ELSE id \in handles

\* RecordingManager.get_active_recordings, as answered by worker w.
get_active_recordings(w) ==
    {id \in get_all_recordings(rows, <<"recording">>) :
        is_recording_active(rows, id, proc, processes[w])}

\* ------------------------------------------------------------- specification

Next ==
    \/ Tick
    \/ \E j \in JobIds : ProcExit(j)
    \/ \E j \in JobIds : ProcWrite(j)
    \/ \E w \in FirstOnly(Workers), url \in FirstOnly(Urls) : StartCall(w, url)
    \/ \E j \in JobIds : StartSpawnOk(j)
    \/ \E j \in JobIds : StartSpawnFail(j)
    \/ \E j \in JobIds : StartCancelled(j)
    \/ \E j \in JobIds, stderr \in StderrBytes : MonitorWake(j, stderr)
    \/ \E j \in JobIds : MonitorFinish(j)
    \/ \E s \in Slots, w \in Workers, id \in JobIds : StopCall(s, w, id)
    \/ \E s \in Slots : StopWaitExited(s)
    \/ \E s \in Slots : StopTerminate(s)
    \/ \E s \in Slots : StopKill(s)
    \/ \E s \in Slots : StopRemoteKill(s)
    \/ \E s \in Slots : StopSetStatus(s)
    \/ \E s \in Slots : StopFinish(s)
    \/ \E s \in Slots, w \in Workers, id \in JobIds : DeleteCall(s, w, id)
    \/ \E s \in Slots : DeleteGet(s)
    \/ \E s \in Slots : DeleteRow(s)
    \/ \E s \in Slots, w \in Workers : SweepCall(s, w)
    \/ \E s \in Slots, w \in Workers : ShutdownCall(s, w)
    \/ \E s \in Slots : LoopNext(s)

Spec == Init /\ [][Next]_vars

\* ------------------------------------------------------------- properties

ActiveOf(db, url) ==
    {id \in DOMAIN db : db[id].url = url /\ db[id].status \in ActiveStatuses}

\* C1: in every reachable state, under every interleaving of the workers'
\* steps, at most one row per url has status starting or recording (running).
C1_OneActiveRowPerUrl ==
    \A url \in Urls : Cardinality(ActiveOf(rows, url)) <= 1

\* Two rows of one url, one of them active: the index lets a url be claimed
\* again once its earlier row is terminal.
C1_Witness ==
    \E a, b \in DOMAIN rows :
        /\ a # b
        /\ rows[a].url = rows[b].url
        /\ rows[a].status \in ActiveStatuses

\* C2: of the starts that reach the claim for one url, one succeeds: a claim
\* succeeds only for a url with no row in starting or recording and leaves
\* exactly one; every other start is answered duplicate while such a row
\* exists, and inserts no row, spawns no process and registers no handle.
C2_OneClaimWins ==
    [][/\ nextId' # nextId =>
             /\ ActiveOf(rows, rows'[nextId].url) = {}
             /\ ActiveOf(rows', rows'[nextId].url) = {nextId}
       /\ (returned' # NULL /\ returned'[1].outcome = "duplicate") =>
             /\ Cardinality(ActiveOf(rows, returned'[1].url)) = 1
             /\ returned'[1].value = "None"
             /\ UNCHANGED <<rows, nextId, proc, processes, start_times, starts, monitors>>
      ]_vars

\* A start is answered duplicate while the winner of the url is still past its
\* claim and before its spawn.
C2_Witness ==
    /\ returned # NULL
    /\ returned[1].outcome = "duplicate"
    /\ \E j \in DOMAIN starts :
          /\ j \in DOMAIN rows
          /\ rows[j].url = returned[1].url
          /\ rows[j].status = "starting"

AllowedTransitions ==
    {<<"starting", "recording">>, <<"recording", "completed">>,
     <<"recording", "failed">>, <<"recording", "stopped">>, <<"starting", "failed">>}

\* C3: the status of a row changes only along starting -> recording (running),
\* recording -> completed, failed or stopped, and starting -> failed; a row in
\* completed, failed or stopped keeps its status.
C3_OnlyAllowedTransitions ==
    [][\A id \in DOMAIN rows \cap DOMAIN rows' :
          rows'[id].status # rows[id].status =>
              <<rows[id].status, rows'[id].status>> \in AllowedTransitions]_vars

\* The steps of a stop_recording that was called on a row already stopped.
SecondStopStep(s) ==
    /\ ops'[s] # ops[s] \/ returned' # NULL
    /\ \/ ops[s].kind = "stop" /\ ops[s].already
       \/ ~Running(s) /\ ops'[s].kind = "stop" /\ ops'[s].already
       \/ /\ ~Running(s)
          /\ calls' # calls
          /\ returned' # NULL
          /\ returned'[1].call = "stop"
          /\ returned'[1].outcome = "was stopped"

\* C4: a stop of a job that an earlier stop has stopped returns False, leaves
\* the row as it is and sends no signal.
C4_SecondStopIsNoOp ==
    [][\A s \in Slots :
          SecondStopStep(s) =>
              /\ rows' = rows
              /\ ops'[s].sent = <<>>
              /\ returned' # NULL => returned'[1].value = "False"]_vars

\* A call of stop_recording that returns in the step that made it.
ImmediateStopReturn ==
    /\ calls' # calls
    /\ returned' # NULL
    /\ returned'[1].call = "stop"

\* C5: stop(id) for an id without a row returns False at once, changes neither
\* the store nor any registry, and sends no signal.
C5_StopOfUnknownId ==
    [][/\ \A s \in Slots :
             (~Running(s) /\ ops'[s].kind = "stop" /\ Running(s)')
                 => ops'[s].id \in DOMAIN rows
       /\ (ImmediateStopReturn /\ returned'[1].id \notin DOMAIN rows) =>
             /\ returned'[1].value = "False"
             /\ UNCHANGED <<rows, proc, files, processes, start_times, ops>>
      ]_vars

\* A stop of an id without a row has returned False while a capture process
\* is running.
C5_Witness ==
    /\ returned # NULL
    /\ returned[1].call = "stop"
    /\ returned[1].id \notin DOMAIN rows
    /\ returned[1].value = "False"
    /\ \E j \in DOMAIN proc : proc[j].alive

\* C6: the value start returns for a duplicate differs from the value it
\* returns for a failed spawn.
C6_DuplicateDistinctFromFailure ==
    [][(/\ returned # NULL
        /\ returned' # NULL
        /\ {returned[1].outcome, returned'[1].outcome} = {"duplicate", "spawn_failed"})
            => returned[1].value # returned'[1].value]_vars

\* C7: when the spawn fails after a won claim, the row (if it still exists) is
\* set to failed with an error_message, start returns a failure (None), and
\* after the return the row is not starting and no worker holds a handle of
\* the job.
C7_SpawnFailure ==
    [][(returned' # NULL /\ returned'[1].outcome = "spawn_failed") =>
          LET id == returned'[1].id
          IN /\ returned'[1].value = "None"
             /\ DOMAIN rows' = DOMAIN rows
             /\ id \in DOMAIN rows =>
                   /\ rows'[id].status = "failed"
                   /\ rows'[id].error_message # NULL
             /\ \A w \in Workers : id \notin processes'[w]
             /\ id \notin DOMAIN proc'
             /\ id \notin DOMAIN monitors']_vars

\* start has returned a failure for a job whose spawn failed; the row is failed.
C7_Witness ==
    /\ returned # NULL
    /\ returned[1].outcome = "spawn_failed"
    /\ returned[1].id \in DOMAIN rows
    /\ rows[returned[1].id].status = "failed"
    /\ rows[returned[1].id].error_message # NULL

\* The step in which start_recording promotes job id.
PromoteStep(id) ==
    /\ returned' # NULL
    /\ returned'[1].outcome = "spawned"
    /\ returned'[1].id = id

\* C8: file_path and pid of a row are null until the promote that finds the
\* row in starting, which is the only step that writes them; a promote that
\* finds another status returns no row count and leaves the row unchanged.
C8_PathAndPidWrittenOnce ==
    /\ [](\A id \in DOMAIN rows :
             rows[id].status = "starting" => rows[id].file_path = NULL /\ rows[id].pid = NULL)
    /\ [][\A id \in DOMAIN rows' :
             /\ id \notin DOMAIN rows => rows'[id].file_path = NULL /\ rows'[id].pid = NULL
             /\ id \in DOMAIN rows =>
                   /\ (rows'[id].file_path # rows[id].file_path \/ rows'[id].pid # rows[id].pid) =>
                         /\ PromoteStep(id)
                         /\ rows[id].status = "starting"
                         /\ rows[id].file_path = NULL /\ rows[id].pid = NULL
                         /\ rows'[id].status = "recording"
                   /\ (PromoteStep(id) /\ rows[id].status # "starting") =>
                         /\ rows'[id] = rows[id]
                         /\ update_to_recording(rows, id, FilePath(id), <<proc'[id].pid>>).rowcount = 0
         ]_vars

\* A promote has found its row stopped and left it without file_path and pid.
C8_Witness ==
    /\ returned # NULL
    /\ returned[1].outcome = "spawned"
    /\ returned[1].id \in DOMAIN rows
    /\ rows[returned[1].id].status = "stopped"
    /\ rows[returned[1].id].pid = NULL
    /\ rows[returned[1].id].file_path = NULL

\* The step in which the monitor of job j, woken by the exit of the process,
\* classifies the exit.
MonitorWakeStep(j) ==
    /\ j \in DOMAIN monitors
    /\ monitors[j].pc = "wait"
    /\ j \notin DOMAIN monitors' \/ monitors'[j].pc # "wait"

\* C9: when the process of a recording (running) job has exited on its own and
\* the owning worker still holds its handle, the monitor sets the row to
\* completed if the exit code is 0 and else to failed with an error_message;
\* when the monitor ends, the handle is out of the registry.
C9_MonitorClassifiesExit ==
    [][\A j \in DOMAIN monitors :
          /\ (/\ MonitorWakeStep(j)
              /\ j \in processes[monitors[j].w]
              /\ j \in DOMAIN rows
              /\ rows[j].status = "recording"
              /\ \A s \in Slots : ~Running(s)) =>
                 /\ j \in DOMAIN rows'
                 /\ rows'[j].status =
                        IF proc[j].returncode = <<0>> THEN "completed" ELSE "failed"
                 /\ rows'[j].status = "failed" => rows'[j].error_message # NULL
          /\ j \notin DOMAIN monitors' => j \notin processes'[monitors[j].w]]_vars

\* C10: in every reachable state a row has a stopped_at exactly when its
\* status is completed, failed or stopped.
C10_StoppedAtIffTerminal ==
    \A id \in DOMAIN rows :
        rows[id].stopped_at # NULL <=> rows[id].status \in TerminalStatuses

\* Rows in each of the three terminal statuses are reached; here one stopped
\* and one failed or completed.
C10_Witness ==
    \E a, b \in DOMAIN rows :
        /\ rows[a].status = "stopped"
        /\ rows[b].status \in {"completed", "failed"}
        /\ rows[a].stopped_at # NULL
        /\ rows[b].stopped_at # NULL

\* The step in which the stop_recording call in slot s, made on a row in
\* starting or recording, returns.
ActiveStopReturns(s) ==
    /\ ops[s].kind = "stop"
    /\ ops[s].at \in ActiveStatuses
    /\ returned' # NULL
    /\ returned'[1].call = "stop"

\* C11: when a stop of a job that was starting or recording (running) returns,
\* the row, if it still exists, is stopped, whichever worker holds the handle;
\* and if the output file of the job exists then, duration_seconds and
\* file_size_bytes are stored.
C11_StopLeavesStopped ==
    [][\A s \in Slots :
          (ActiveStopReturns(s) /\ ops[s].id \in DOMAIN rows') =>
              /\ rows'[ops[s].id].status = "stopped"
              /\ FilePath(ops[s].id)[1] \in DOMAIN files' =>
                    /\ rows'[ops[s].id].duration_seconds # NULL
                    /\ rows'[ops[s].id].file_size_bytes # NULL]_vars

\* The step in which the delete_recording call in slot s returns.
DeleteReturns(s) ==
    /\ returned' # NULL
    /\ returned'[1].call = "delete"
    /\ \/ ops[s].kind = "delete"
       \/ ~Running(s) /\ calls' # calls

\* The step in which the delete_recording of slot s (a call, or one made by
\* the sweep) has read a row and tried to remove its file.
DeleteTriesFile(s) ==
    /\ ops'[s].pc = "del_row"
    /\ ops[s].pc # "del_row"

DeleteUnknownStep(s) ==
    \/ ops[s].kind = "delete" /\ ops[s].at = "none" /\ ops'[s] # ops[s]
    \/ ~Running(s) /\ ops'[s].kind = "delete" /\ ops'[s].at = "none"
    \/ /\ ~Running(s)
       /\ calls' # calls
       /\ returned' # NULL
       /\ returned'[1].call = "delete"
       /\ returned'[1].id \notin DOMAIN rows

\* C13: delete(id) for an id without a row returns False and changes no row,
\* no output file, no registry and no process.
C13_DeleteOfUnknownId ==
    [][\A s \in Slots :
          DeleteUnknownStep(s) =>
              /\ UNCHANGED <<rows, files, proc, processes, start_times>>
              /\ ops'[s].sent = <<>>
              /\ returned' # NULL => returned'[1].value = "False"]_vars

\* A delete of an id whose row is gone has returned False in a worker that
\* still holds the handle of that job.
C13_Witness ==
    /\ returned # NULL
    /\ returned[1].call = "delete"
    /\ returned[1].value = "False"
    /\ returned[1].id \notin DOMAIN rows
    /\ \E w \in Workers : returned[1].id \in processes[w]

\* C14: for a fresh id, create_starting_entry returns True and adds one row in
\* starting exactly when no row of the url is in starting or recording;
\* otherwise it returns False and leaves the store as it is.  So a row left in
\* starting keeps every start of its url a duplicate.
C14_ClaimIffNoActiveRow ==
    \A url \in Urls :
        LET claim == create_starting_entry(rows, nextId, url, now)
        IN /\ claim.ok <=> ActiveOf(rows, url) = {}
           /\ claim.ok =>
                 /\ DOMAIN claim.db = DOMAIN rows \cup {nextId}
                 /\ claim.db[nextId].status = "starting"
                 /\ claim.db[nextId].url = url
                 /\ \A id \in DOMAIN rows : claim.db[id] = rows[id]
           /\ ~claim.ok => claim.db = rows

\* A start is answered duplicate because of a starting row whose start was
\* cancelled: no task will ever promote or fail it.
C14_Witness ==
    /\ returned # NULL
    /\ returned[1].outcome = "duplicate"
    /\ \E j \in DOMAIN rows :
          /\ rows[j].url = returned[1].url
          /\ rows[j].status = "starting"
          /\ j \notin DOMAIN starts
          /\ j \notin DOMAIN proc

\* The rows a sweep must delete: terminal and started before the horizon.
OldTerminal(db, t) ==
    {id \in DOMAIN db :
        db[id].status \in TerminalStatuses /\ db[id].started_at < t - RetentionHorizon}

\* C15: an iteration of the sweep takes up every row that is terminal and
\* older than the retention horizon when it reads the store, returns only when
\* it has gone through all of them, and has deleted the row of each one it
\* has gone through.
C15_SweepDeletesOldTerminal ==
    [][\A s \in Slots :
          /\ (~Running(s) /\ ops'[s].kind = "sweep") =>
                OldTerminal(rows, now) \subseteq ops'[s].todo
          /\ (ops[s].kind = "sweep" /\ ops'[s] # ops[s]
              /\ returned' # NULL /\ returned'[1].call = "sweep") =>
                ops[s].todo = {}
          /\ (ops[s].kind = "sweep" /\ ops'[s].kind = "sweep" /\ ops'[s] # ops[s]) =>
                /\ ops'[s].todo \subseteq ops[s].todo
                /\ ops[s].todo \ ops'[s].todo \subseteq {ops'[s].id}
                /\ ops'[s].pc = "loop" => ops'[s].id \notin DOMAIN rows']_vars

\* A sweep has returned after deleting the row of an old failed, completed or
\* stopped job.
C15_Witness ==
    /\ returned # NULL
    /\ returned[1].call = "sweep"
    /\ calls = 1
    /\ nextId > 1
    /\ rows = <<>>
    /\ proc = <<>>

\* C16: when shutdown() returns, no job that had a handle in the worker when
\* shutdown was called has one still, and the row of each such job, if it
\* exists, is terminal.
C16_ShutdownStopsLocalJobs ==
    [][\A s \in Slots :
          (returned' # NULL /\ returned'[1].call = "shutdown") =>
              \A id \in ops[s].held :
                  /\ id \notin processes'[ops[s].w]
                  /\ id \in DOMAIN rows' => rows'[id].status \in TerminalStatuses]_vars

\* C17: the list of active jobs, from the store and from every worker, is the
\* set of rows in starting or recording (running).
C17_ListActiveIsActiveRows ==
    /\ db_get_active_recordings(rows) = {id \in DOMAIN rows : rows[id].status \in ActiveStatuses}
    /\ \A w \in Workers :
          get_active_recordings(w) = {id \in DOMAIN rows : rows[id].status \in ActiveStatuses}

\* C18: _detect_stream_type answers every url with one of the six types, the
\* same for the same url; MPD for every url with the MPD indicator, whatever
\* hostnames it has too; GENERIC for every url without an indicator.
C18_ClassifyTotalMpdFirst ==
    (resolve.fn = "_detect_stream_type" /\ resolve.out # NULL) =>
        /\ resolve.out[1] \in StreamTypes
        /\ resolve.out[1] = detect_stream_type(resolve.arg)
        /\ ".mpd" \in resolve.arg => resolve.out[1] = "MPD"
        /\ resolve.arg = {} => resolve.out[1] = "GENERIC"
        /\ resolve.out[1] = "GENERIC" => resolve.arg = {}

\* A url with the MPD indicator and a provider hostname has been answered MPD.
C18_Witness ==
    /\ resolve.fn = "_detect_stream_type"
    /\ {".mpd", "vavoo.to"} \subseteq resolve.arg
    /\ resolve.out = <<"MPD">>

\* The (tag, uri) pairs of a playlist: the positions of the "inf" lines that
\* a "uri" line follows.
InfPairs(lines) ==
    {i \in 1..(Len(lines) - 1) : lines[i].kind = "inf" /\ lines[i + 1].kind = "uri"}

Least(S) == CHOOSE x \in S : \A y \in S : x <= y

\* C19: the video url chosen from a playlist with #EXT-X-STREAM-INF tags that
\* a uri line follows is the uri of the first such pair.
C19_FirstVariantWins ==
    (/\ resolve.fn = "_parse_master_playlist"
     /\ resolve.out # NULL
     /\ resolve.arg.status = "200"
     /\ InfPairs(resolve.arg.content) # {}) =>
        resolve.out[1][1] =
            resolve.arg.content[Least(InfPairs(resolve.arg.content)) + 1].uri

\* The audio candidates of a playlist: the positions of the "audio" lines
\* that carry a URI.
AudioCandidates(lines) ==
    {i \in 1..Len(lines) : lines[i].kind = "audio" /\ lines[i].uri # NULL}

\* C20: the audio url chosen is the URI of the first candidate flagged
\* DEFAULT=YES, and the URI of the first candidate when none is flagged.
C20_DefaultAudioWins ==
    (/\ resolve.fn = "_parse_master_playlist"
     /\ resolve.out # NULL
     /\ resolve.arg.status = "200"
     /\ AudioCandidates(resolve.arg.content) # {}) =>
        LET lines == resolve.arg.content
            flagged == {i \in AudioCandidates(lines) : lines[i].dflt}
        IN resolve.out[1][2] =
               lines[Least(IF flagged # {} THEN flagged
                           ELSE AudioCandidates(lines))].uri

\* A call of _prepare_stream_config for a url classified MPD has returned.
MpdPrepared ==
    /\ resolve.fn = "_prepare_stream_config"
    /\ resolve.out # NULL
    /\ ".mpd" \in resolve.arg.url

\* The answer to the request of the master url gives no video url: the request
\* failed, the status is not 200, or no tag of the playlist has a uri line.
NoVideoParsed(response) ==
    response.status # "200" \/ InfPairs(response.content) = {}

\* The inputs of a command: the words that follow a -i.
InputsOf(cmd) == [i \in {j \in 2..Len(cmd) : cmd[j - 1] = Word("-i")} |-> cmd[i]]

\* C21: for an MPD url whose master playlist cannot be fetched or gives no
\* video url, the configuration returned has the requested master url as its
\* video url and no audio url, also when an audio url was found, and the
\* command that start_recording goes on to build has that url as its only input.
C21_MpdFallsBackToMasterUrl ==
    (MpdPrepared /\ NoVideoParsed(resolve.arg.response)) =>
        /\ resolve.request # NULL
        /\ resolve.request[1].route = "/proxy/mpd/manifest.m3u8"
        /\ resolve.out[1].video_url = resolve.request[1]
        /\ resolve.out[1].audio_url = NULL
        /\ resolve.cmd # NULL =>
              \E i \in 1..Len(resolve.cmd[1]) :
                  InputsOf(resolve.cmd[1]) = (i :> resolve.request[1])

\* The command has been built for an MPD url whose playlist has an audio
\* candidate and no video variant.
C21_Witness ==
    /\ MpdPrepared
    /\ resolve.arg.response.status = "200"
    /\ AudioCandidates(resolve.arg.response.content) # {}
    /\ InfPairs(resolve.arg.response.content) = {}
    /\ resolve.cmd # NULL

ReconnectFlags ==
    <<Word("-reconnect"), Word("1"), Word("-reconnect_streamed"), Word("1"),
      Word("-reconnect_delay_max"), Word("2")>>

HasReconnectFlags(cmd) ==
    \E i \in 1..(Len(cmd) - 5) : SubSeq(cmd, i, i + 5) = ReconnectFlags

HasNoReconnectFlag(cmd) ==
    \A i \in 1..Len(cmd) :
        cmd[i] \notin {Word("-reconnect"), Word("-reconnect_streamed"),
                       Word("-reconnect_delay_max")}

\* The configuration of a GENERIC source that goes through the HLS route of
\* the proxy.
GenericHls(config) ==
    /\ config.stream_type = "GENERIC"
    /\ config.video_url.route = "/proxy/hls/manifest.m3u8"

\* C22: the command built for a configuration of a GENERIC HLS source has the
\* reconnect flags when needs_reconnect is true and none of them when it is
\* false.
C22_ReconnectIffNeeded ==
    /\ (resolve.fn = "_build_ffmpeg_command" /\ resolve.out # NULL
        /\ GenericHls(resolve.arg.config)) =>
           IF resolve.arg.config.needs_reconnect
           THEN HasReconnectFlags(resolve.out[1])
           ELSE HasNoReconnectFlag(resolve.out[1])
    /\ (resolve.fn = "_prepare_stream_config" /\ resolve.cmd # NULL
        /\ GenericHls(resolve.out[1])) =>
           IF resolve.out[1].needs_reconnect
           THEN HasReconnectFlags(resolve.cmd[1])
           ELSE HasNoReconnectFlag(resolve.cmd[1])

\* A command with the reconnect flags has been built for a GENERIC HLS source.
C22_Witness ==
    /\ resolve.fn = "_build_ffmpeg_command"
    /\ resolve.out # NULL
    /\ GenericHls(resolve.arg.config)
    /\ resolve.arg.config.needs_reconnect
    /\ HasReconnectFlags(resolve.out[1])

\* C23: for an MPD url and a clearkey with a colon, the request of the master
\* url carries key_id, the part before the first colon, and key, the part after
\* it; without a clearkey it carries neither and a configuration is returned.
C23_ClearkeySplitAtFirstColon ==
    MpdPrepared =>
        LET clearkey == resolve.arg.clearkey
            params == resolve.request[1].params
        IN /\ (clearkey # NULL /\ HasColon(clearkey[1])) =>
                 \E i \in 1..Len(clearkey[1]) :
                     /\ clearkey[1][i] = ":"
                     /\ \A j \in 1..(i - 1) : clearkey[1][j] # ":"
                     /\ {"key_id", "key"} \subseteq DOMAIN params
                     /\ params["key_id"] = SubSeq(clearkey[1], 1, i - 1)
                     /\ params["key"] = SubSeq(clearkey[1], i + 1, Len(clearkey[1]))
           /\ clearkey = NULL =>
                 /\ {"key_id", "key"} \cap DOMAIN params = {}
                 /\ resolve.out[1].stream_type = "MPD"

\* A configuration has been prepared for an MPD url with a clearkey of two
\* colons.
C23_Witness ==
    /\ MpdPrepared
    /\ resolve.arg.clearkey = <<<<"a", ":", ":">>>>
    /\ resolve.request[1].params["key_id"] = <<"a">>
    /\ resolve.request[1].params["key"] = <<":">>

\* C30: the configuration prepared has needs_reconnect true exactly when the
\* url is classified MPD or as one of the four providers; for MPD it has
\* needs_extended_probe true; for every other type it has needs_extended_probe
\* false and no audio url.
C30_ReconnectAndProbeByType ==
    (resolve.fn = "_prepare_stream_config" /\ resolve.out # NULL) =>
        LET stream_type == detect_stream_type(resolve.arg.url)
            config == resolve.out[1]
        IN /\ config.stream_type = stream_type
           /\ config.needs_reconnect =
                  (stream_type \in {"MPD", "VAVOO", "FREESHOT", "DLHD", "SPORTSONLINE"})
           /\ stream_type = "GENERIC" => ~config.needs_reconnect
           /\ stream_type = "MPD" => config.needs_extended_probe
           /\ stream_type # "MPD" =>
                 ~config.needs_extended_probe /\ config.audio_url = NULL

\* Configurations have been prepared for a provider url, with needs_reconnect
\* true and needs_extended_probe false.
C30_Witness ==
    /\ resolve.fn = "_prepare_stream_config"
    /\ resolve.out # NULL
    /\ resolve.arg.url = {"vavoo.to"}
    /\ resolve.out[1].needs_reconnect
    /\ ~resolve.out[1].needs_extended_probe

\* Call s sends a signal in this step, as a stop that has the local handle of
\* the job: sig is the signal and before the signals the stop has sent so far.
LocalSignal(s, sig, before) ==
    /\ ops'[s].sent # ops[s].sent
    /\ ops'[s].sent = Append(before, <<sig, ops'[s].id>>)
    /\ IF ops[s].pc \in {"stop_wait1", "stop_wait2"}
       THEN before = ops[s].sent
       ELSE /\ ops[s].pc # "stop_sleep"
            /\ before = <<>>
            /\ ops'[s].id \in processes[ops'[s].w]

SendsLocally(s) ==
    \E sig \in {"q", "term", "kill"} :
        \E before \in {<<>>, ops[s].sent} : LocalSignal(s, sig, before)

\* The signals of a stop that escalates in order, as they are sent in a step.
EscalatesInOrder(s) ==
    \/ LocalSignal(s, "q", <<>>)
    \/ /\ LocalSignal(s, "term", <<<<"q", ops[s].id>>>>)
       /\ ops[s].pc = "stop_wait1"
       /\ ops[s].id \in DOMAIN proc /\ proc[ops[s].id].alive
    \/ /\ LocalSignal(s, "kill", <<<<"q", ops[s].id>>, <<"term", ops[s].id>>>>)
       /\ ops[s].pc = "stop_wait2"
       /\ ops[s].id \in DOMAIN proc /\ proc[ops[s].id].alive

\* C24 as claimed: a stop with the local handle sends 'q' first, terminate
\* only after 'q' and a first wait that timed out, kill only after terminate
\* and a second wait that timed out, and nothing to a process that has exited.
C24_SignalsEscalateInOrder ==
    [][\A s \in Slots : SendsLocally(s) => EscalatesInOrder(s)]_vars

\* C24 as amended: the same, but for a stop whose write of 'q' raises: it
\* sends terminate at once, to a process that has not exited, and nothing else.
C24_SignalsEscalateOrTerminateOnError ==
    [][\A s \in Slots :
          SendsLocally(s) =>
              \/ EscalatesInOrder(s)
              \/ /\ LocalSignal(s, "term", <<>>)
                 /\ ops'[s].pc = "stop_status"
                 /\ ops'[s].id \in DOMAIN proc /\ proc[ops'[s].id].alive]_vars

\* A stop with the local handle has sent the three signals in turn.
C24_Witness ==
    \E s \in Slots :
        /\ ops[s].kind = "stop"
        /\ ops[s].pc = "stop_status"
        /\ ops[s].sent = <<<<"q", ops[s].id>>, <<"term", ops[s].id>>, <<"kill", ops[s].id>>>>

\* The worker of a call has let go of job id after the step.
Released(w, id) == id \notin processes'[w] /\ id \notin DOMAIN start_times'[w]

\* C25: when stop_recording(id) returns in a worker that had the handle of the
\* job when it was called, the worker has neither the handle nor the start
\* time of the job.
C25_StopReleasesHandle ==
    [][/\ \A s \in Slots, w \in Workers, id \in JobIds :
             (StopCall(s, w, id) /\ returned' # NULL /\ id \in processes[w]) =>
                 Released(w, id)
       /\ \A s \in Slots :
             (ops[s].kind = "stop" /\ Running(s) /\ ops'[s].pc = "idle") =>
                 \A id \in ops[s].held : Released(ops[s].w, id)]_vars

\* Call s enters the branch of stop_recording of a worker without the handle
\* of the job.
RemoteEntry(s) ==
    /\ ops[s].pc \in {"idle", "loop"}
    /\ ops'[s].pc \in {"stop_sleep", "stop_status"}
    /\ ops'[s].id \notin processes[ops'[s].w]

\* The live process that has the pid persisted in the row read by call op.
ProbedAlive(op, j) ==
    /\ op.rec.pid # NULL
    /\ j \in DOMAIN proc
    /\ proc[j].alive
    /\ <<proc[j].pid>> = op.rec.pid

\* C26: a stop without the local handle sends SIGTERM when the pid of the row
\* is not null and its probe positive, to the process of that pid, and no
\* signal otherwise; after the sleep it sends SIGKILL when the probe is still
\* positive, to the process of that pid, and no signal otherwise.
C26_RemoteStopSignalsByPid ==
    [][\A s \in Slots :
          /\ RemoteEntry(s) =>
                IF \E j \in JobIds : ProbedAlive(ops'[s], j)
                THEN /\ ops'[s].pc = "stop_sleep"
                     /\ \E j \in JobIds : /\ ProbedAlive(ops'[s], j)
                                          /\ ops'[s].sent = <<<<"term", j>>>>
                ELSE ops'[s].pc = "stop_status" /\ ops'[s].sent = <<>>
          /\ (ops[s].pc = "stop_sleep" /\ ops'[s] # ops[s]) =>
                IF \E j \in JobIds : ProbedAlive(ops[s], j)
                THEN \E j \in JobIds : /\ ProbedAlive(ops[s], j)
                                       /\ ops'[s].sent = Append(ops[s].sent, <<"kill", j>>)
                ELSE ops'[s].sent = ops[s].sent
          /\ ops[s].pc \in {"stop_status", "stop_file"} =>
                ops'[s].sent \in {ops[s].sent, <<>>}]_vars

\* A stop without the local handle has sent SIGTERM and then SIGKILL.
C26_Witness ==
    \E s \in Slots :
        /\ ops[s].kind = "stop"
        /\ ops[s].pc = "stop_status"
        /\ Len(ops[s].sent) = 2
        /\ ops[s].sent[1][1] = "term"
        /\ ops[s].sent[2][1] = "kill"

\* The row of job id is in starting and no start_recording is going to promote
\* or fail it: the task that claimed it is gone.
Orphaned(id) ==
    /\ id \in DOMAIN rows
    /\ rows[id].status = "starting"
    /\ id \notin DOMAIN starts

\* C27: the row of an orphaned job is deleted or changed only by a step of a
\* stop_recording or delete_recording called on its id, never by the sweep, a
\* monitor or shutdown.
C27_OrphanedStartingRowKept ==
    [][\A id \in JobIds :
          (Orphaned(id) /\ (id \notin DOMAIN rows' \/ rows'[id] # rows[id])) =>
              \E s \in Slots :
                  /\ Running(s)
                  /\ ops[s].kind \in {"stop", "delete"}
                  /\ ops[s].id = id]_vars

\* C28: a job has a monitor only once its start_recording has executed the
\* promote, so that its row, if there still is one, is not in starting; and the
\* monitor writes completed or failed only onto a row that is not in starting.
C28_MonitorAfterPromote ==
    /\ [](\A j \in DOMAIN monitors :
             /\ j \notin DOMAIN starts
             /\ j \in DOMAIN rows => rows[j].status # "starting")
    /\ [][\A j \in DOMAIN monitors :
             (MonitorWakeStep(j) /\ rows' # rows) =>
                 /\ j \in DOMAIN rows
                 /\ rows[j].status # "starting"
                 /\ rows'[j].status \in {"completed", "failed"}]_vars

\* The monitor of a job has seen the exit and written completed or failed.
C28_Witness ==
    \E j \in DOMAIN monitors :
        /\ monitors[j].pc = "file"
        /\ j \in DOMAIN rows
        /\ rows[j].status \in {"completed", "failed"}
        /\ rows[j].pid # NULL

\* C29: the cleanup_loop runs an iteration again and again, and after an
\* iteration that failed another one is run.
C29_LoopSurvivesFailures ==
    /\ []<>(cleanup_loop.pc = "run")
    /\ (cleanup_loop.pc = "sleep" /\ cleanup_loop.last = "failed") ~> (cleanup_loop.pc = "run")

\* An iteration runs after one that failed.
C29_Witness ==
    /\ cleanup_loop.pc = "run"
    /\ cleanup_loop.last = "failed"
    /\ \E s \in Slots : ops[s].kind = "sweep" /\ ops[s].todo # {}

\* The places of the -i options of a command.
InputPositions(cmd) == {i \in 1..Len(cmd) : cmd[i] = Word("-i")}

\* The options of the first input, and those of the second: the words before
\* its -i, back to the input before it.
OptionsOfVideo(cmd) == SubSeq(cmd, 1, Least(InputPositions(cmd)) - 1)

OptionsOfAudio(cmd) ==
    LET v == Least(InputPositions(cmd))
    IN SubSeq(cmd, v + 2, Least(InputPositions(cmd) \ {v}) - 1)

HasWords(words, flags) ==
    \E i \in 0..(Len(words) - Len(flags)) : SubSeq(words, i + 1, i + Len(flags)) = flags

\* The read timeout, the reconnect flags and the live-edge flag.
PerInputFlags ==
    {<<Word("-rw_timeout"), Word("30000000")>>, ReconnectFlags,
     <<Word("-live_start_index"), Word("-1")>>}

SameFlagsPerInput(config, cmd) ==
    config.audio_url # NULL =>
        /\ Cardinality(InputPositions(cmd)) = 2
        /\ \A flags \in PerInputFlags :
              HasWords(OptionsOfVideo(cmd), flags) => HasWords(OptionsOfAudio(cmd), flags)
        /\ HasWords(cmd, <<Word("-map"), Word("0:v:0"), Word("-map"), Word("1:a:0")>>)

\* C31: in a command with a separate audio input, each of the read timeout,
\* the reconnect flags and the live-edge flag that precedes the video input
\* precedes the audio input too, and the mapping takes video from input 0 and
\* audio from input 1.
C31_SameFlagsBeforeEachInput ==
    /\ (resolve.fn = "_build_ffmpeg_command" /\ resolve.out # NULL) =>
           SameFlagsPerInput(resolve.arg.config, resolve.out[1])
    /\ (resolve.fn = "_prepare_stream_config" /\ resolve.cmd # NULL) =>
           SameFlagsPerInput(resolve.out[1], resolve.cmd[1])

\* The places of the -t option of a command, and the durations that follow it.
CapPositions(cmd) == {i \in 1..(Len(cmd) - 1) : cmd[i] = Word("-t")}

DurationCaps(cmd) == {cmd[i + 1] : i \in CapPositions(cmd)}

\* The command has the one duration cap, before its first input.
CappedBeforeInput(cmd, cap) ==
    /\ DurationCaps(cmd) = {Number(cap)}
    /\ \A i \in CapPositions(cmd) : i < Least(InputPositions(cmd))

\* start_recording has clamped the duration asked for and built the command.
StartBuilt == resolve.fn = "_prepare_stream_config" /\ resolve.cmd # NULL

\* The command builder, given a duration cap, puts it before the first input.
BuilderPutsCapFirst ==
    (/\ resolve.fn = "_build_ffmpeg_command"
     /\ resolve.out # NULL
     /\ resolve.arg.duration # NULL
     /\ resolve.arg.duration[1] # 0) =>
        CappedBeforeInput(resolve.out[1], resolve.arg.duration[1])

\* C32 as claimed: the duration cap that start_recording passes to the command
\* builder is the smaller of the duration asked for and the ceiling when a
\* duration is asked for, and the ceiling when none is; it never exceeds the
\* ceiling, and in the argv it comes before the first input.
C32_CapIsMinOfRequestAndCeiling ==
    /\ StartBuilt =>
          /\ CappedBeforeInput(resolve.cmd[1],
                 IF resolve.duration # NULL
                 THEN Min(resolve.duration[1], max_duration) ELSE max_duration)
          /\ \A cap \in DurationCaps(resolve.cmd[1]) : cap.number <= max_duration
    /\ BuilderPutsCapFirst

\* C32 as amended: the same for a duration asked for that is not 0; when 0 is
\* asked for the cap is the ceiling, as when none is.
C32_CapIsMinOrCeilingForZero ==
    /\ StartBuilt =>
          /\ CappedBeforeInput(resolve.cmd[1],
                 IF resolve.duration # NULL /\ resolve.duration[1] # 0
                 THEN Min(resolve.duration[1], max_duration) ELSE max_duration)
          /\ \A cap \in DurationCaps(resolve.cmd[1]) : cap.number <= max_duration
    /\ BuilderPutsCapFirst

\* A command has been built for a start that asked for more than the ceiling:
\* its cap is the ceiling.
C32_Witness ==
    /\ StartBuilt
    /\ resolve.duration = <<max_duration + 1>>
    /\ CappedBeforeInput(resolve.cmd[1], max_duration)

\* The capture process of job k is alive and has been sent no terminate and
\* no kill.  A process that has been sent one is dead, out of its worker's
\* registry, or the process a call in flight has signalled; the signals are
\* taken to end a process, so only the others count here.
Unsignalled(k) ==
    /\ Alive(k)
    /\ \E w \in Workers : k \in processes[w]
    /\ \A s \in Slots : \A i \in 1..Len(ops[s].sent) : ops[s].sent[i][2] # k

\* C33: no two capture processes of one url are alive at a time, under every
\* interleaving of start, stop and delete calls of the workers, the terminate
\* and kill signals taken to end a process.
C33_OneProcessPerUrl ==
    \A a, b \in DOMAIN proc :
        (a # b /\ Unsignalled(a) /\ Unsignalled(b)) => proc[a].url # proc[b].url

\* The row of job id is there and in recording.
RowIsRunning(db, id) == id \in DOMAIN db /\ db[id].status = "recording"

\* C34: every job id in the registry of a worker has a row in recording
\* (running), in every state in which no start is between its spawn and its
\* promote (looked at when the worker is at an await); and the step of a start
\* that spawns and registers the process of a job leaves the row of the job in
\* recording: no process is spawned for a job whose row was stopped or deleted
\* while the start was resolving.
C34_RegisteredJobsAreRunning ==
    /\ [](\A w \in Workers : \A id \in processes[w] :
             busy[w] = NoTask => RowIsRunning(rows, id))
    /\ [][\A j \in JobIds :
             (j \in DOMAIN starts /\ j \in DOMAIN proc') =>
                 /\ \E w \in Workers : j \in processes'[w]
                 /\ RowIsRunning(rows', j)]_vars

\* A stop_recording(id) has set the row to stopped and returned True: the row
\* is in stopped (only stop_recording writes that) and no stop_recording of
\* the id is between its write of the status and its return.
StopHasReturned(id) ==
    /\ AlreadyStopped(rows, id)
    /\ \A s \in Slots : ~(Running(s) /\ ops[s].id = id /\ ops[s].pc = "stop_file")

\* C35: once stop_recording(id) has returned True, the row stays in stopped
\* until it is deleted; the monitor of the owning worker, when it sees the
\* exit of the process, does not write completed or failed over stopped.
C35_StoppedStaysStopped ==
    [][\A id \in DOMAIN rows \cap DOMAIN rows' :
          StopHasReturned(id) => rows'[id].status = "stopped"]_vars

MonitorSpec ==
    /\ Init
    /\ [][Next]_vars
    /\ \A j \in JobIds :
          /\ WF_vars(\E stderr \in StderrBytes : MonitorWake(j, stderr))
          /\ WF_vars(MonitorFinish(j))
    /\ \A s \in Slots :
          /\ WF_vars(StopWaitExited(s) \/ StopTerminate(s) \/ StopKill(s))
          /\ WF_vars(StopRemoteKill(s))
          /\ WF_vars(StopSetStatus(s))
          /\ WF_vars(StopFinish(s))
          /\ WF_vars(DeleteGet(s))
          /\ WF_vars(DeleteRow(s))
          /\ WF_vars(LoopNext(s))

\* The process of job j, a job in recording, has exited and its worker has
\* not collected it yet.
ExitedWhileRunning(j) ==
    /\ j \in DOMAIN proc
    /\ ~proc[j].alive
    /\ RowIsRunning(rows, j)
    /\ j \in DOMAIN monitors

\* C37: once the process of a job in recording (running) has exited, the row
\* of the job gets a terminal status (or is deleted), and the handle of the
\* job leaves the registry of its worker.
C37_ExitLeadsToTerminalRow ==
    \A j \in JobIds :
        /\ ExitedWhileRunning(j) ~>
              (j \in DOMAIN rows => rows[j].status \in TerminalStatuses)
        /\ ExitedWhileRunning(j) ~> (\A w \in Workers : j \notin processes[w])

\* C38: in every reachable state a row in recording (running) has a pid and a
\* file_path, and a row in starting has neither.
C38_RunningHasPidAndPath ==
    \A id \in DOMAIN rows :
        /\ rows[id].status = "recording" =>
              rows[id].pid # NULL /\ rows[id].file_path # NULL
        /\ rows[id].status = "starting" =>
              rows[id].pid = NULL /\ rows[id].file_path = NULL

\* A row in recording, with the pid of a live process and its file_path, next
\* to a row in starting.
C38_Witness ==
    \E a, b \in DOMAIN rows :
        /\ rows[a].status = "recording"
        /\ is_pid_running(proc, rows[a].pid)
        /\ rows[a].file_path = FilePath(a)
        /\ rows[b].status = "starting"

\* The row of job id leaves the active statuses in this step: it becomes
\* completed, failed or stopped, or it is deleted.
LeavesActive(id) ==
    /\ id \in DOMAIN rows
    /\ rows[id].status \in ActiveStatuses
    /\ id \in DOMAIN rows' => rows'[id].status \in TerminalStatuses

\* C39: every exit of the row of a url from starting and recording (to
\* completed, failed or stopped, or by its deletion) releases the url: from
\* then on a start of the url wins its claim and inserts a row in starting;
\* a start is answered duplicate only while a row of its url is in starting
\* or recording.
C39_ExitReleasesUrl ==
    [][/\ \A id \in JobIds :
             LeavesActive(id) =>
                 LET claim == create_starting_entry(rows', nextId', rows[id].url, now')
                 IN /\ claim.ok
                    /\ claim.db[nextId'] = NewRow(rows[id].url, now')
       /\ (returned' # NULL /\ returned'[1].outcome = "duplicate") =>
             ActiveOf(rows, returned'[1].url) # {}
       /\ \A id \in DOMAIN rows :
             (rows[id].status \in TerminalStatuses /\ id \in DOMAIN rows') =>
                 rows'[id].status \in TerminalStatuses]_vars

\* A start has won the claim of a url whose earlier row is completed.
C39_Witness ==
    \E a, b \in DOMAIN rows :
        /\ a < b
        /\ rows[a].url = rows[b].url
        /\ rows[a].status = "completed"
        /\ rows[b].status = "starting"
        /\ b \in DOMAIN starts

====
